---- MODULE Spec2Model ----
(***************************************************************************)
(* BakerBudgetApp: the rule engine (RuleEngineService), the bucket         *)
(* classifier (DashboardComponent.applyRulesToTransactions) and the data   *)
(* they read.                                                              *)
(*                                                                         *)
(* Units.  A JavaScript number that is an amount is kept in hundredths     *)
(* (9.99 is 999), so the arithmetic of the comparisons is exact integer    *)
(* arithmetic.  A string is the sequence of its characters.  An instant    *)
(* is kept in hours since the epoch (the source keeps seconds and          *)
(* milliseconds); the local time zone is an offset in hours.               *)
(***************************************************************************)
EXTENDS Integers, Sequences, FiniteSets, TLC

(***************************************************************************)
(* JavaScript values, tagged by their type.                                *)
(***************************************************************************)
Undefined == [t |-> "undefined"]
Null == [t |-> "null"]
NaN == [t |-> "nan"]
Num(n) == [t |-> "num", n |-> n]
Str(s) == [t |-> "str", s |-> s]
\* A Date object holding the instant h; InvalidDate is a Date whose time is NaN.
DateAt(h) == [t |-> "date", h |-> h]
InvalidDate == [t |-> "baddate"]

IsNum(v) == v.t = "num"
IsStr(v) == v.t = "str"
IsDate(v) == v.t = "date"
IsNullish(v) == v.t \in {"undefined", "null"}

\* a === b
StrictEq(a, b) ==
  /\ a.t = b.t
  /\ CASE a.t = "num" -> a.n = b.n
       [] a.t = "str" -> a.s = b.s
       [] a.t = "nan" -> FALSE
       [] a.t = "date" -> FALSE
       [] a.t = "baddate" -> FALSE
       [] OTHER -> TRUE

(***************************************************************************)
(* Characters and strings.                                                 *)
(***************************************************************************)
UpperCase == <<"A", "B", "C", "D", "E", "F", "G", "H", "I", "J", "K", "L", "M",
               "N", "O", "P", "Q", "R", "S", "T", "U", "V", "W", "X", "Y", "Z">>
LowerCase == <<"a", "b", "c", "d", "e", "f", "g", "h", "i", "j", "k", "l", "m",
               "n", "o", "p", "q", "r", "s", "t", "u", "v", "w", "x", "y", "z">>
DigitChars == <<"0", "1", "2", "3", "4", "5", "6", "7", "8", "9">>

IsDigit(c) == \E i \in 1..Len(DigitChars) : DigitChars[i] = c
DigitVal(c) == (CHOOSE i \in 1..Len(DigitChars) : DigitChars[i] = c) - 1

LowerChar(c) ==
  IF \E i \in 1..Len(UpperCase) : UpperCase[i] = c
  THEN LowerCase[CHOOSE i \in 1..Len(UpperCase) : UpperCase[i] = c]
  ELSE c

\* String.prototype.toLowerCase
toLowerCase(s) == [i \in 1..Len(s) |-> LowerChar(s[i])]

\* String.prototype.startsWith / endsWith / includes
startsWith(s, p) == Len(p) <= Len(s) /\ SubSeq(s, 1, Len(p)) = p
endsWith(s, p) == Len(p) <= Len(s) /\ SubSeq(s, Len(s) - Len(p) + 1, Len(s)) = p
includes(s, p) ==
  \E i \in 0..(Len(s) - Len(p)) : SubSeq(s, i + 1, i + Len(p)) = p

Max(a, b) == IF a >= b THEN a ELSE b
Min(a, b) == IF a <= b THEN a ELSE b
Abs(n) == IF n < 0 THEN -n ELSE n

(***************************************************************************)
(* parseFloat.  Leading blanks, an optional sign, digits, an optional      *)
(* fraction; anything after the longest numeric prefix is ignored, and a   *)
(* string with no numeric prefix is NaN.  The result is in hundredths: the *)
(* fraction's first two digits count (the strings of the model carry no    *)
(* more).                                                                  *)
(***************************************************************************)
RECURSIVE SkipBlanks(_, _)
SkipBlanks(s, i) ==
  IF i <= Len(s) /\ s[i] = " " THEN SkipBlanks(s, i + 1) ELSE i

RECURSIVE DigitRun(_, _)
\* the number of digits of s from position i on
DigitRun(s, i) ==
  IF i <= Len(s) /\ IsDigit(s[i]) THEN 1 + DigitRun(s, i + 1) ELSE 0

RECURSIVE DigitsValue(_, _, _)
\* the value of the k digits of s that start at position i
DigitsValue(s, i, k) ==
  IF k = 0 THEN 0
  ELSE 10 * DigitsValue(s, i, k - 1) + DigitVal(s[i + k - 1])

\* the number read once the sign, the k digits from position i and the f digits of
\* the fraction are known
ParseNumber(s, neg, i, k, f) ==
  IF k = 0 /\ f = 0 THEN NaN
  ELSE Num((IF neg THEN -1 ELSE 1)
           * (100 * DigitsValue(s, i, k)
              + 10 * (IF f >= 1 THEN DigitVal(s[i + k + 1]) ELSE 0)
              + (IF f >= 2 THEN DigitVal(s[i + k + 2]) ELSE 0)))

ParseFraction(s, neg, i, k) ==
  ParseNumber(s, neg, i, k,
              IF i + k <= Len(s) /\ s[i + k] = "." THEN DigitRun(s, i + k + 1) ELSE 0)

ParseSigned(s, i0) ==
  IF i0 <= Len(s) /\ s[i0] \in {"-", "+"}
  THEN ParseFraction(s, s[i0] = "-", i0 + 1, DigitRun(s, i0 + 1))
  ELSE ParseFraction(s, FALSE, i0, DigitRun(s, i0))

ParseFloatStr(s) == ParseSigned(s, SkipBlanks(s, 1))

RECURSIVE NatToStr(_)
NatToStr(n) ==
  IF n < 10 THEN <<DigitChars[n + 1]>>
  ELSE NatToStr(n \div 10) \o <<DigitChars[(n % 10) + 1]>>

\* the fraction of a number with c hundredths: "", ".5", ".05", ".55"
FractionStr(c) ==
  IF c = 0 THEN <<>>
  ELSE IF c % 10 = 0 THEN <<".", DigitChars[(c \div 10) + 1]>>
  ELSE <<".", DigitChars[(c \div 10) + 1], DigitChars[(c % 10) + 1]>>

\* Number.prototype.toString of an amount kept in hundredths
NumToStr(n) ==
  (IF n < 0 THEN <<"-">> ELSE <<>>) \o NatToStr(Abs(n) \div 100) \o FractionStr(Abs(n) % 100)

(***************************************************************************)
(* Time.  An instant is a number of hours since 1970-01-01T00:00Z; tz is   *)
(* the local zone's offset from UTC in hours (local = UTC + tz), or the    *)
(* code of a zone with daylight saving time.  The calendar covers 1969 and *)
(* 1970, both of 365 days.                                                 *)
(***************************************************************************)
MonthLengths == <<31, 28, 31, 30, 31, 30, 31, 31, 30, 31, 30, 31>>
WeekdayNames ==
  <<<<"S", "u", "n">>, <<"M", "o", "n">>, <<"T", "u", "e">>, <<"W", "e", "d">>,
    <<"T", "h", "u">>, <<"F", "r", "i">>, <<"S", "a", "t">>>>
MonthNames ==
  <<<<"J", "a", "n">>, <<"F", "e", "b">>, <<"M", "a", "r">>, <<"A", "p", "r">>,
    <<"M", "a", "y">>, <<"J", "u", "n">>, <<"J", "u", "l">>, <<"A", "u", "g">>,
    <<"S", "e", "p">>, <<"O", "c", "t">>, <<"N", "o", "v">>, <<"D", "e", "c">>>>

\* zones whose offset changes with daylight saving time: the code 100 stands for
\* America/New_York, 5 hours behind UTC and 4 hours behind in summer
DstZones == {100}
\* summer time of America/New_York in 1969 and 1970: from 02:00 EST of the last
\* Sunday of April (07:00 UTC of 1969-04-27 and 1970-04-26) to 02:00 EDT of the last
\* Sunday of October (06:00 UTC of 1969-10-26 and 1970-10-25)
IsDst(h) == (h >= -5969 /\ h < -1602) \/ (h >= 2767 /\ h < 7134)
\* the hours the local clock is ahead of UTC at instant h
UtcOffset(h, tz) == IF tz \in DstZones THEN (IF IsDst(h) THEN -4 ELSE -5) ELSE tz

\* the local calendar day (days since 1970-01-01) that holds instant h
LocalDay(h, tz) == (h + UtcOffset(h, tz)) \div 24
\* Date.prototype.getHours
getHours(h, tz) == (h + UtcOffset(h, tz)) % 24
\* local midnight of local calendar day d, as an instant
LocalMidnight(d, tz) ==
  IF tz \in DstZones THEN (IF IsDst(d * 24 + 4) THEN d * 24 + 4 ELSE d * 24 + 5)
  ELSE d * 24 - tz
\* the weekday of calendar day d, 0 = Sunday (1970-01-01 was a Thursday)
WeekdayOfDay(d) == (d + 4) % 7
YearOfDay(d) == IF d < 0 THEN 1969 ELSE 1970

RECURSIVE MonthFrom(_, _)
\* the month (0..11) of day-of-year n (0-based), searching from month m
MonthFrom(n, m) ==
  IF n < MonthLengths[m + 1] THEN m ELSE MonthFrom(n - MonthLengths[m + 1], m + 1)

RECURSIVE DaysBefore(_)
\* the days of the year before month m (0..11)
DaysBefore(m) == IF m = 0 THEN 0 ELSE DaysBefore(m - 1) + MonthLengths[m]

\* Date.prototype.getMonth / getDate / getDay / getFullYear of a local calendar day
MonthOfDay(d) == MonthFrom(d % 365, 0)
DateOfDay(d) == (d % 365) - DaysBefore(MonthFrom(d % 365, 0)) + 1
\* new Date(year, month, 1): the first day of d's month
FirstOfMonth(d) == d - (DateOfDay(d) - 1)

\* the calendar day of year-month-day, or -1000 when the calendar has no such day
DayOfYMD(y, m, dd) ==
  IF y \in {1969, 1970} /\ m \in 1..12 /\ dd >= 1 /\ dd <= MonthLengths[IF m \in 1..12 THEN m ELSE 1]
  THEN (IF y = 1969 THEN -365 ELSE 0) + DaysBefore(m - 1) + dd - 1
  ELSE -1000

AllDigits(s, i, k) == \A j \in i..(i + k - 1) : IsDigit(s[j])

\* the calendar day a text YYYY-MM-DD names, or -1000 when it is no date of the calendar
DayOfIsoDate(s) ==
  IF /\ Len(s) = 10
     /\ s[5] = "-" /\ s[8] = "-"
     /\ AllDigits(s, 1, 4) /\ AllDigits(s, 6, 2) /\ AllDigits(s, 9, 2)
  THEN DayOfYMD(DigitsValue(s, 1, 4), DigitsValue(s, 6, 2), DigitsValue(s, 9, 2))
  ELSE -1000

DateOfDayNumber(d) == IF d = -1000 THEN InvalidDate ELSE DateAt(24 * d)

\* new Date(s + "T00:00:00Z"), and new Date(s) of a date-only text: UTC midnight of
\* the day s names; Invalid Date when s is no date
NewDateUtcMidnight(s) == DateOfDayNumber(DayOfIsoDate(s))

TwoDigits(n) == <<DigitChars[(n \div 10) + 1], DigitChars[(n % 10) + 1]>>

\* the text of the calendar day d as the date picker stores it
IsoDateOfDay(d) ==
  NatToStr(YearOfDay(d)) \o <<"-">> \o TwoDigits(MonthOfDay(d) + 1) \o <<"-">>
    \o TwoDigits(DateOfDay(d))

\* Date.prototype.toString of an instant on local day d, cut after the time of day:
\* "Thu Jan 01 1970 05:00:00"
DayToStr(d, hours) ==
  WeekdayNames[WeekdayOfDay(d) + 1] \o <<" ">> \o MonthNames[MonthOfDay(d) + 1]
    \o <<" ">> \o TwoDigits(DateOfDay(d)) \o <<" ">> \o NatToStr(YearOfDay(d)) \o <<" ">>
    \o TwoDigits(hours) \o <<":", "0", "0", ":", "0", "0">>
DateToStr(h, tz) == DayToStr(LocalDay(h, tz), getHours(h, tz))

\* String(v)
JSString(v, tz) ==
  CASE v.t = "str" -> v.s
    [] v.t = "num" -> NumToStr(v.n)
    [] v.t = "null" -> <<"n", "u", "l", "l">>
    [] v.t = "undefined" -> <<"u", "n", "d", "e", "f", "i", "n", "e", "d">>
    [] v.t = "nan" -> <<"N", "a", "N">>
    [] v.t = "date" -> DateToStr(v.h, tz)
    [] OTHER -> <<"I", "n", "v", "a", "l", "i", "d", " ", "D", "a", "t", "e">>

\* parseFloat(v): the argument is converted to a string first
parseFloat(v) ==
  CASE v.t = "num" -> ParseFloatStr(NumToStr(v.n))
    [] v.t = "str" -> ParseFloatStr(v.s)
    [] OTHER -> NaN

\* new Date(v) with one argument.  A number is a count of milliseconds: an amount
\* n (in hundredths) is the instant floor(n / 100 / 3600000) hours.
NewDate(v) ==
  CASE v.t = "date" -> v
    [] v.t = "num" -> DateAt(v.n \div 360000000)
    [] v.t = "str" -> NewDateUtcMidnight(v.s)
    [] OTHER -> InvalidDate

(***************************************************************************)
(* Transactions and conditions (models/budget.model.ts).                   *)
(* A ProcessedTransaction is a record id, posted, amountNum, description,  *)
(* payee, orgName, accountName, balanceBefore, balanceAfter; an absent     *)
(* optional field holds Undefined.  A FilterCondition is a record field,   *)
(* operator, value, value2, useAbsoluteAmount; a FilterGroup a record      *)
(* operator, conditions, subGroups; a Rule a record id, filterGroup.       *)
(***************************************************************************)
StringOperators == {"exactMatch", "contains", "doesNotContain", "startsWith",
                    "endsWith", "regex"}
NumericOperators == {"equalTo", "notEqualTo", "greaterThan", "lessThan",
                     "greaterThanOrEqualTo", "lessThanOrEqualTo", "between"}
DateOperators == {"onDate", "beforeDate", "afterDate", "betweenDates"}
MoneyFields == {"amountTransacted", "balanceBefore", "balanceAfter"}

\* ceil((dateInMonth + dayOfWeekForFirst) / 7)
weekOfMonthOf(dateInMonth, dayOfWeekForFirst) == (dateInMonth + dayOfWeekForFirst + 6) \div 7
weekOfMonthOfDay(d) == weekOfMonthOf(DateOfDay(d), WeekdayOfDay(FirstOfMonth(d)))
\* RuleEngineService.getWeekOfMonth of the instant h
getWeekOfMonth(h, tz) == weekOfMonthOfDay(LocalDay(h, tz))

\* RuleEngineService.getTransactionValue.  The date parts are numbers, kept in
\* hundredths like every number; the time of day is the text HH:00.
getTransactionValue(transaction, field, tz) ==
  CASE field = "payeeName" -> transaction.payee
    [] field = "descriptionText" -> transaction.description
    [] field = "orgName" -> transaction.orgName
    [] field = "accountName" -> transaction.accountName
    [] field = "amountTransacted" -> transaction.amountNum
    [] field = "balanceBefore" -> transaction.balanceBefore
    [] field = "balanceAfter" -> transaction.balanceAfter
    [] field = "dayOfWeek" -> Num(100 * WeekdayOfDay(LocalDay(transaction.posted, tz)))
    [] field = "weekOfMonth" -> Num(100 * getWeekOfMonth(transaction.posted, tz))
    [] field = "monthOfYear" -> Num(100 * MonthOfDay(LocalDay(transaction.posted, tz)))
    [] field = "transactionTime" ->
         Str(TwoDigits(getHours(transaction.posted, tz)) \o <<":", "0", "0">>)
    [] field = "postedDate" -> DateAt(transaction.posted)
    [] OTHER -> Undefined

\* date.setHours(0, 0, 0, 0) of a Date; null for an Invalid Date
startOfLocalDay(date, tz) ==
  IF date.t # "date" THEN Null
  ELSE DateAt(LocalMidnight(LocalDay(date.h, tz), tz))

\* RuleEngineService.normalizeToDateOnly: null for a missing or invalid date, else
\* the local midnight of the date's day
normalizeToDateOnly(dateInput, tz) ==
  IF IsNullish(dateInput) THEN Null
  ELSE startOfLocalDay(NewDate(dateInput), tz)

\* typeof v === 'number'
TypeofNumber(v) == v.t \in {"num", "nan"}
\* Math.abs of a number value
MathAbs(v) == IF v.t = "num" THEN Num(Abs(v.n)) ELSE NaN
\* a truthy value
Truthy(v) ==
  CASE v.t = "str" -> v.s # <<>>
    [] v.t = "num" -> v.n # 0
    [] v.t \in {"date", "baddate"} -> TRUE
    [] OTHER -> FALSE

\* the relational operators on number values: false as soon as one side is NaN
NumLt(a, b) == a.t = "num" /\ b.t = "num" /\ a.n < b.n
NumLe(a, b) == a.t = "num" /\ b.t = "num" /\ a.n <= b.n
NumGt(a, b) == NumLt(b, a)
NumGe(a, b) == NumLe(b, a)

\* The characters with a meaning in a regular expression.  The patterns of the model
\* are literal text (no such character), which new RegExp accepts and test() finds
\* as a case-sensitive substring, or hold such a character, and are patterns that
\* make new RegExp throw a SyntaxError ("(", "[a", "*a").
RegExpMeta == {"(", ")", "[", "]", "*", "+", "?", ".", "^", "$", "|", "{", "}", "\\"}
RegExpThrows(p) == \E i \in 1..Len(p) : p[i] \in RegExpMeta
RegExpTest(p, s) == includes(s, p)

\* a defect: the absolute value is not taken
numericTxValue_signed(txValue, useAbsoluteAmount) ==
  IF TypeofNumber(txValue) THEN txValue ELSE NaN

\* the condition's numericTxValue: the number, its absolute value when the flag is set
numericTxValue(txValue, useAbsoluteAmount) ==
  IF useAbsoluteAmount /\ TypeofNumber(txValue) THEN MathAbs(txValue)
  ELSE IF TypeofNumber(txValue) THEN txValue ELSE NaN

\* date?.getTime() of a normalized date: undefined for null
GetTimeOpt(d) == IF d.t = "date" THEN Num(d.h) ELSE Undefined

\* normalizeToDateOnly(new Date(String(filterValue) + "T00:00:00Z"))
FilterDate(filterValue, tz) ==
  startOfLocalDay(NewDateUtcMidnight(JSString(filterValue, tz)), tz)

(***************************************************************************)
(* RuleEngineService.evaluateCondition of rule-engine.service.ts: one      *)
(* switch over the operator.                                               *)
(***************************************************************************)
\* a defect: a missing value counts as different from whatever it is compared with
absentValueResult_notEqual(condition) ==
  IF condition.operator = "notEqualTo" THEN TRUE
  ELSE IF condition.operator = "equalTo" /\ condition.value.t = "null" THEN TRUE
  ELSE FALSE

\* a defect: with a null comparison value, notEqualTo is false as null !== null is
absentValueResult_strictNotEqual(condition) ==
  IF condition.operator = "equalTo" /\ condition.value.t = "null" THEN TRUE
  ELSE FALSE

\* the result for a transaction value that is undefined or null
absentValueResult(condition) ==
  IF condition.operator = "notEqualTo" /\ condition.value.t = "null" THEN TRUE
  ELSE IF condition.operator = "equalTo" /\ condition.value.t = "null" THEN TRUE
  ELSE FALSE

\* the cases of the string operators, on String(txValue) and String(filterValue)
stringCases(op, txStr, fStr) ==
  CASE op = "exactMatch" -> toLowerCase(txStr) = toLowerCase(fStr)
    [] op = "contains" -> includes(toLowerCase(txStr), toLowerCase(fStr))
    [] op = "doesNotContain" -> ~includes(toLowerCase(txStr), toLowerCase(fStr))
    [] op = "startsWith" -> startsWith(toLowerCase(txStr), toLowerCase(fStr))
    [] op = "endsWith" -> endsWith(toLowerCase(txStr), toLowerCase(fStr))
    [] op = "regex" -> IF RegExpThrows(fStr) THEN FALSE ELSE RegExpTest(fStr, txStr)
    [] OTHER -> FALSE

\* a defect: the upper bound of between is exclusive
betweenCase_open(numTx, pf, pf2) == NumGe(numTx, pf) /\ NumLt(numTx, pf2)

\* the between case: numericTxValue >= parseFloat(filterValue) &&
\* numericTxValue <= parseFloat(filterValue2)
betweenCase(numTx, pf, pf2) == NumGe(numTx, pf) /\ NumLe(numTx, pf2)

\* the cases of the numeric operators; numTx is numericTxValue, pf and pf2 are
\* parseFloat(filterValue) and parseFloat(filterValue2)
numericCases(condition, txValue, numTx, pf, pf2) ==
  CASE condition.operator = "equalTo" ->
         IF condition.useAbsoluteAmount THEN StrictEq(numTx, pf)
         ELSE StrictEq(txValue, pf) \/ StrictEq(txValue, condition.value)
    [] condition.operator = "notEqualTo" ->
         IF condition.useAbsoluteAmount THEN ~StrictEq(numTx, pf)
         ELSE ~StrictEq(txValue, pf) /\ ~StrictEq(txValue, condition.value)
    [] condition.operator = "greaterThan" -> NumGt(numTx, pf)
    [] condition.operator = "lessThan" -> NumLt(numTx, pf)
    [] condition.operator = "greaterThanOrEqualTo" -> NumGe(numTx, pf)
    [] condition.operator = "lessThanOrEqualTo" -> NumLe(numTx, pf)
    [] condition.operator = "between" -> betweenCase(numTx, pf, pf2)
    [] OTHER -> FALSE

\* the cases of the date operators; the three dates are normalized dates or null
dateCases(op, txDate, filterDate, filterDateEnd) ==
  CASE op = "onDate" -> StrictEq(GetTimeOpt(txDate), GetTimeOpt(filterDate))
    [] op = "beforeDate" ->
         txDate.t = "date" /\ filterDate.t = "date" /\ txDate.h < filterDate.h
    [] op = "afterDate" ->
         txDate.t = "date" /\ filterDate.t = "date" /\ txDate.h > filterDate.h
    [] op = "betweenDates" ->
         /\ txDate.t = "date" /\ filterDate.t = "date" /\ filterDateEnd.t = "date"
         /\ txDate.h >= filterDate.h /\ txDate.h <= filterDateEnd.h
    [] OTHER -> FALSE

\* evaluateCondition once the transaction's value is read
evaluateValue(txValue, condition, tz) ==
  IF IsNullish(txValue) THEN absentValueResult(condition)
  ELSE IF condition.operator \in StringOperators
    THEN stringCases(condition.operator, JSString(txValue, tz), JSString(condition.value, tz))
  ELSE IF condition.operator \in NumericOperators
    THEN numericCases(condition, txValue,
                      numericTxValue(txValue, condition.useAbsoluteAmount),
                      parseFloat(condition.value), parseFloat(condition.value2))
  ELSE IF condition.operator \in DateOperators
    THEN dateCases(condition.operator, normalizeToDateOnly(txValue, tz),
                   FilterDate(condition.value, tz), FilterDate(condition.value2, tz))
  ELSE FALSE

\* RuleEngineService.evaluateCondition (rule-engine.service.ts)
evaluateCondition(transaction, condition, tz) ==
  IF condition.field = "" \/ condition.operator = "" THEN FALSE
  ELSE evaluateValue(getTransactionValue(transaction, condition.field, tz), condition, tz)

(***************************************************************************)
(* RuleEngineService.evaluateCondition of part_003: one helper per         *)
(* operator type.                                                          *)
(***************************************************************************)
\* the switch of evaluateStringCondition, on its two strings
stringSwitch(op, transactionStringValue, filterValue) ==
  CASE op = "exactMatch" -> toLowerCase(transactionStringValue) = toLowerCase(filterValue)
    [] op = "contains" ->
         includes(toLowerCase(transactionStringValue), toLowerCase(filterValue))
    [] op = "doesNotContain" ->
         ~includes(toLowerCase(transactionStringValue), toLowerCase(filterValue))
    [] op = "startsWith" ->
         startsWith(toLowerCase(transactionStringValue), toLowerCase(filterValue))
    [] op = "endsWith" ->
         endsWith(toLowerCase(transactionStringValue), toLowerCase(filterValue))
    [] op = "regex" ->
         IF RegExpThrows(filterValue) THEN FALSE
         ELSE RegExpTest(filterValue, transactionStringValue)
    [] OTHER -> FALSE

\* RuleEngineService.evaluateStringCondition
evaluateStringCondition(txValue, condition, tz) ==
  stringSwitch(condition.operator, JSString(txValue, tz), JSString(condition.value, tz))

\* the value evaluateNumericCondition compares (valueToCompare)
valueToCompare(numTx, originalTxValue, condition) ==
  IF condition.useAbsoluteAmount /\ condition.field \in MoneyFields THEN numTx
  ELSE IF TypeofNumber(originalTxValue) THEN originalTxValue ELSE numTx

\* a defect: a missing second value is taken for no upper bound
numericBetween_noUpper(v, filterVal, filterVal2) ==
  IF filterVal2.t # "num" THEN NumGe(v, filterVal)
  ELSE NumGe(v, filterVal) /\ NumLe(v, filterVal2)

\* the between case of evaluateNumericCondition
numericBetween(v, filterVal, filterVal2) ==
  IF filterVal2.t # "num" THEN FALSE
  ELSE NumGe(v, filterVal) /\ NumLe(v, filterVal2)

\* the two NaN tests and the switch of evaluateNumericCondition
numericSwitch(op, v, filterVal, filterVal2) ==
  IF v.t # "num" THEN FALSE
  ELSE IF filterVal.t # "num" THEN FALSE
  ELSE CASE op = "equalTo" -> StrictEq(v, filterVal)
         [] op = "notEqualTo" -> ~StrictEq(v, filterVal)
         [] op = "greaterThan" -> NumGt(v, filterVal)
         [] op = "lessThan" -> NumLt(v, filterVal)
         [] op = "greaterThanOrEqualTo" -> NumGe(v, filterVal)
         [] op = "lessThanOrEqualTo" -> NumLe(v, filterVal)
         [] op = "between" -> numericBetween(v, filterVal, filterVal2)
         [] OTHER -> FALSE

\* RuleEngineService.evaluateNumericCondition
evaluateNumericCondition(numTx, originalTxValue, condition) ==
  numericSwitch(condition.operator,
                valueToCompare(numTx, originalTxValue, condition),
                parseFloat(condition.value),
                IF condition.value2.t # "undefined" THEN parseFloat(condition.value2)
                ELSE Undefined)

\* the tests and the switch of evaluateDateCondition, on its three dates
dateSwitch(op, txDate, filterDate1, filterDate2) ==
  IF txDate.t # "date" THEN FALSE
  ELSE IF filterDate1.t # "date" THEN FALSE
  ELSE CASE op = "onDate" -> txDate.h = filterDate1.h
         [] op = "beforeDate" -> txDate.h < filterDate1.h
         [] op = "afterDate" -> txDate.h > filterDate1.h
         [] op = "betweenDates" ->
              IF filterDate2.t # "date" THEN FALSE
              ELSE txDate.h >= filterDate1.h /\ txDate.h <= filterDate2.h
         [] OTHER -> FALSE

\* a filter date of evaluateDateCondition: null for a falsy value
FilterDateOrNull(value, tz) == IF Truthy(value) THEN FilterDate(value, tz) ELSE Null

\* RuleEngineService.evaluateDateCondition
evaluateDateCondition(txValue, condition, tz) ==
  dateSwitch(condition.operator, normalizeToDateOnly(txValue, tz),
             FilterDateOrNull(condition.value, tz), FilterDateOrNull(condition.value2, tz))

\* the result for a transaction value that is undefined or null (part_003)
absentValueResult_p3(condition) ==
  IF condition.operator = "notEqualTo" /\ condition.value.t = "null" THEN TRUE
  ELSE IF condition.operator = "equalTo" /\ condition.value.t = "null" THEN TRUE
  ELSE IF condition.operator = "doesNotContain" /\ condition.value.t # "null" THEN TRUE
  ELSE FALSE

\* evaluateCondition (part_003) once the transaction's value is read
evaluateValue_p3(txValue, condition, tz) ==
  IF IsNullish(txValue) THEN absentValueResult_p3(condition)
  ELSE IF condition.operator \in StringOperators
    THEN evaluateStringCondition(txValue, condition, tz)
  ELSE IF condition.operator \in NumericOperators
    THEN evaluateNumericCondition(numericTxValue(txValue, condition.useAbsoluteAmount),
                                  txValue, condition)
  ELSE IF condition.operator \in DateOperators
    THEN evaluateDateCondition(txValue, condition, tz)
  ELSE FALSE

\* RuleEngineService.evaluateCondition (part_003)
evaluateCondition_p3(transaction, condition, tz) ==
  IF condition.field = "" \/ condition.operator = "" THEN FALSE
  ELSE evaluateValue_p3(getTransactionValue(transaction, condition.field, tz), condition, tz)

(***************************************************************************)
(* Filter groups.  A missing group or rule is Null.                        *)
(***************************************************************************)
\* a defect: a group without conditions counts as satisfied whatever its operator
conditionsResult_vacuousTrue(transaction, group, tz) ==
  IF Len(group.conditions) > 0
  THEN IF group.operator = "AND"
       THEN \A i \in 1..Len(group.conditions) :
              evaluateCondition(transaction, group.conditions[i], tz)
       ELSE \E i \in 1..Len(group.conditions) :
              evaluateCondition(transaction, group.conditions[i], tz)
  ELSE TRUE

\* conditionsResult of evaluateFilterGroup (rule-engine.service.ts): every for AND,
\* some for OR, and the group's being an AND group when it has no conditions
conditionsResult(transaction, group, tz) ==
  IF Len(group.conditions) > 0
  THEN IF group.operator = "AND"
       THEN \A i \in 1..Len(group.conditions) :
              evaluateCondition(transaction, group.conditions[i], tz)
       ELSE \E i \in 1..Len(group.conditions) :
              evaluateCondition(transaction, group.conditions[i], tz)
  ELSE group.operator = "AND"

\* a defect: the sub-groups are never looked at
groupReturn_noSubGroups(operator, conditionsRes, noSubGroups, subGroupsResult) ==
  conditionsRes

\* what evaluateFilterGroup returns once the conditions are evaluated;
\* subGroupsResult is every or some over the sub-groups, by the operator
groupReturn(operator, conditionsRes, noSubGroups, subGroupsResult) ==
  IF noSubGroups THEN conditionsRes
  ELSE IF operator = "AND" THEN (IF ~conditionsRes THEN FALSE ELSE subGroupsResult)
  ELSE (IF conditionsRes THEN TRUE ELSE subGroupsResult)

RECURSIVE evaluateFilterGroup(_, _, _)
\* RuleEngineService.evaluateFilterGroup (rule-engine.service.ts)
evaluateFilterGroup(transaction, group, tz) ==
  IF IsNullish(group) THEN FALSE
  ELSE groupReturn(group.operator, conditionsResult(transaction, group, tz),
                   Len(group.subGroups) = 0,
                   IF group.operator = "AND"
                   THEN \A i \in 1..Len(group.subGroups) :
                          evaluateFilterGroup(transaction, group.subGroups[i], tz)
                   ELSE \E i \in 1..Len(group.subGroups) :
                          evaluateFilterGroup(transaction, group.subGroups[i], tz))

\* conditionsMet of evaluateFilterGroup (part_003)
conditionsMet(transaction, group, tz) ==
  IF Len(group.conditions) > 0
  THEN IF group.operator = "AND"
       THEN \A i \in 1..Len(group.conditions) :
              evaluateCondition_p3(transaction, group.conditions[i], tz)
       ELSE \E i \in 1..Len(group.conditions) :
              evaluateCondition_p3(transaction, group.conditions[i], tz)
  ELSE group.operator = "AND"

\* what evaluateFilterGroup (part_003) returns once the conditions are evaluated
groupReturn_p3(operator, conditionsRes, noSubGroups, subGroupsResult) ==
  IF operator = "AND" /\ ~conditionsRes THEN FALSE
  ELSE IF operator # "AND" /\ conditionsRes THEN TRUE
  ELSE IF noSubGroups THEN conditionsRes
  ELSE subGroupsResult

RECURSIVE evaluateFilterGroup_p3(_, _, _)
\* RuleEngineService.evaluateFilterGroup (part_003)
evaluateFilterGroup_p3(transaction, group, tz) ==
  IF IsNullish(group) THEN FALSE
  ELSE groupReturn_p3(group.operator, conditionsMet(transaction, group, tz),
                      Len(group.subGroups) = 0,
                      IF group.operator = "AND"
                      THEN \A i \in 1..Len(group.subGroups) :
                             evaluateFilterGroup_p3(transaction, group.subGroups[i], tz)
                      ELSE \E i \in 1..Len(group.subGroups) :
                             evaluateFilterGroup_p3(transaction, group.subGroups[i], tz))

\* The two engines: "service" is rule-engine.service.ts, "part_003" is part_003.
Engines == {"service", "part_003"}

\* RuleEngineService.evaluateTransactionAgainstRule, of the engine e
evaluateTransactionAgainstRule(e, transaction, rule, tz) ==
  IF IsNullish(rule) THEN FALSE
  ELSE IF IsNullish(rule.filterGroup) THEN FALSE
  ELSE IF e = "service" THEN evaluateFilterGroup(transaction, rule.filterGroup, tz)
  ELSE evaluateFilterGroup_p3(transaction, rule.filterGroup, tz)

(***************************************************************************)
(* DashboardComponent.applyRulesToTransactions (part_009) and              *)
(* BudgetConfigService.getRuleById.  A Bucket is a record id, name,        *)
(* priority, rules; a BucketRule a record ruleId, isActive.                *)
(***************************************************************************)
VARIABLES
  tz,               \* hours the local time is ahead of UTC
  today,            \* the hour new Date() gives, counted from the epoch
  engine,           \* the RuleEngineService in use
  rules,            \* BudgetConfigService.rules
  buckets,          \* the buckets handed to applyRulesToTransactions
  transactions,     \* the transactions handed to applyRulesToTransactions
  pc,               \* where the running call stands
  idx,              \* the number of transactions the loop has dealt with
  sortedBuckets,    \* applyRulesToTransactions' sortedBuckets
  result,           \* categorizedResult and uncategorizedResult
  inTx,             \* the transaction handed to the rule engine
  inCond,           \* the condition handed to evaluateCondition
  inGroup,          \* the group handed to evaluateFilterGroup
  outcome,          \* what each engine returned
  heap,             \* the Bucket objects alive in the configuration page
  configService,    \* BudgetConfigService: buckets, rules and what localStorage holds
  setupComponent,   \* SetupConfigComponent: buckets, rules, editingBucket, selectedBucketForRules
  invocations,      \* the calls of categorizeTransactions that have not returned
  categorizedBuckets \* DashboardComponent.categorizedBuckets

vars == <<tz, today, engine, rules, buckets, transactions, pc, idx, sortedBuckets, result,
          inTx, inCond, inGroup, outcome, heap, configService, setupComponent,
          invocations, categorizedBuckets>>

\* the configuration page and the dashboard where a run does not involve them
pages == <<heap, configService, setupComponent, invocations, categorizedBuckets>>

\* no configuration page and no dashboard
NoPages ==
  /\ heap = <<>>
  /\ configService = Null
  /\ setupComponent = Null
  /\ invocations = <<>>
  /\ categorizedBuckets = <<>>

\* this.rules.find(r => r.id === id): the first rule of that id, or undefined
getRuleById(rs, id) ==
  IF \E i \in 1..Len(rs) : rs[i].id = id
  THEN rs[CHOOSE i \in 1..Len(rs) : rs[i].id = id /\ \A j \in 1..(i - 1) : rs[j].id # id]
  ELSE Undefined

RECURSIVE InsertByPriority(_, _)
\* a defect: a bucket goes before the buckets of equal priority already placed
InsertByPriority_unstable(sorted, b) ==
  IF sorted = <<>> THEN <<b>>
  ELSE IF b.priority - Head(sorted).priority <= 0 THEN <<b>> \o sorted
  ELSE <<Head(sorted)>> \o InsertByPriority(Tail(sorted), b)

\* a defect: the comparator is reversed, b.priority - a.priority
InsertByPriority_descending(sorted, b) ==
  IF sorted = <<>> THEN <<b>>
  ELSE IF Head(sorted).priority - b.priority < 0 THEN <<b>> \o sorted
  ELSE <<Head(sorted)>> \o InsertByPriority(Tail(sorted), b)

\* b placed into a list sorted by (a, b) => a.priority - b.priority, after the
\* buckets it does not precede: Array.prototype.sort is stable
InsertByPriority(sorted, b) ==
  IF sorted = <<>> THEN <<b>>
  ELSE IF b.priority - Head(sorted).priority < 0 THEN <<b>> \o sorted
  ELSE <<Head(sorted)>> \o InsertByPriority(Tail(sorted), b)

RECURSIVE SortByPriority(_)
\* [...buckets].sort((a, b) => a.priority - b.priority)
SortByPriority(bs) ==
  IF bs = <<>> THEN <<>>
  ELSE InsertByPriority(SortByPriority(SubSeq(bs, 1, Len(bs) - 1)), bs[Len(bs)])

\* ruleDefinition && evaluateTransactionAgainstRule(tx, ruleDefinition)
ruleDefinitionMatches(e, tx, ruleDefinition, z) ==
  ~IsNullish(ruleDefinition) /\ evaluateTransactionAgainstRule(e, tx, ruleDefinition, z)

\* a defect: the association's isActive flag is not looked at
ruleApplies_ignoreActive(e, tx, bucketRule, rs, z) ==
  ruleDefinitionMatches(e, tx, getRuleById(rs, bucketRule.ruleId), z)

\* the test the inner loop makes of one association of a bucket
ruleApplies(e, tx, bucketRule, rs, z) ==
  bucketRule.isActive /\ ruleDefinitionMatches(e, tx, getRuleById(rs, bucketRule.ruleId), z)

\* the inner loop over bucket.rules sets matched
bucketMatches(e, tx, bucket, rs, z) ==
  \E i \in 1..Len(bucket.rules) : ruleApplies(e, tx, bucket.rules[i], rs, z)

\* the first index at which matches holds, 0 when it holds nowhere
firstTrue(matches) ==
  IF \E k \in DOMAIN matches : matches[k]
  THEN CHOOSE k \in DOMAIN matches : matches[k] /\ \A j \in 1..(k - 1) : ~matches[j]
  ELSE 0

\* { ...tx, bucketId: bucket.id, bucketName: bucket.name } and { ...tx }
Categorized(tx, bucket) == [tx |-> tx, bucketId |-> bucket.id, bucketName |-> bucket.name]
Uncategorized(tx) == [tx |-> tx, bucketId |-> <<>>, bucketName |-> <<>>]

\* a defect: the new entry goes to the front of its list
pushAt_unshift(res, tx, sorted, k) ==
  IF k = 0 THEN [res EXCEPT !.uncategorized = <<Uncategorized(tx)>> \o @]
  ELSE [res EXCEPT !.categorized[sorted[k].id] = <<Categorized(tx, sorted[k])>> \o @]

\* the pushes of one round of the transaction loop: onto the list of the bucket at
\* index k of sortedBuckets, onto the uncategorized list when k is 0
pushAt(res, tx, sorted, k) ==
  IF k = 0 THEN [res EXCEPT !.uncategorized = Append(@, Uncategorized(tx))]
  ELSE [res EXCEPT !.categorized[sorted[k].id] = Append(@, Categorized(tx, sorted[k]))]

\* the rounds of the bucket loop for tx: the buckets' match results, in order
bucketResults(tx, sorted, e, rs, z) ==
  [k \in 1..Len(sorted) |-> bucketMatches(e, tx, sorted[k], rs, z)]

RECURSIVE pushEvery(_, _, _, _, _)
\* the pushes of a bucket loop that runs on after a match
pushEvery(res, tx, sorted, matches, k) ==
  IF k > Len(sorted) THEN res
  ELSE pushEvery(IF matches[k] THEN pushAt(res, tx, sorted, k) ELSE res,
                 tx, sorted, matches, k + 1)

\* a defect: the bucket loop does not stop at the first bucket that matches
placeTransaction_noBreak(res, tx, sorted, e, rs, z) ==
  IF firstTrue(bucketResults(tx, sorted, e, rs, z)) = 0 THEN pushAt(res, tx, sorted, 0)
  ELSE pushEvery(res, tx, sorted, bucketResults(tx, sorted, e, rs, z), 1)

\* one round of the loop over the transactions (part_009, lines 261-285)
placeTransaction(res, tx, sorted, e, rs, z) ==
  pushAt(res, tx, sorted, firstTrue(bucketResults(tx, sorted, e, rs, z)))

\* lines 248-258: the empty results, one list per bucket, and the sorted buckets
ApplyRulesStart ==
  /\ pc = "called"
  /\ result' = [categorized |-> [id \in {buckets[k].id : k \in 1..Len(buckets)} |-> <<>>],
                uncategorized |-> <<>>]
  /\ sortedBuckets' = SortByPriority(buckets)
  /\ idx' = 0
  /\ pc' = "loop"
  /\ UNCHANGED <<pages, tz, today, engine, rules, buckets, transactions, inTx, inCond, inGroup,
                 outcome>>

\* lines 261-285: one transaction
ApplyRulesTx ==
  /\ pc = "loop"
  /\ idx < Len(transactions)
  /\ result' = placeTransaction(result, transactions[idx + 1], sortedBuckets, engine, rules, tz)
  /\ idx' = idx + 1
  /\ UNCHANGED <<pages, tz, today, engine, rules, buckets, transactions, pc, sortedBuckets,
                 inTx, inCond, inGroup, outcome>>

\* line 286
ApplyRulesReturn ==
  /\ pc = "loop"
  /\ idx = Len(transactions)
  /\ pc' = "returned"
  /\ UNCHANGED <<pages, tz, today, engine, rules, buckets, transactions, idx, sortedBuckets,
                 result, inTx, inCond, inGroup, outcome>>

(***************************************************************************)
(* The rule engine called on its own: one condition, or one filter group,  *)
(* against one transaction, by both engines.                               *)
(***************************************************************************)
EvaluateCondition ==
  /\ pc = "condition"
  /\ outcome' = [service |-> evaluateCondition(inTx, inCond, tz),
                 part_003 |-> evaluateCondition_p3(inTx, inCond, tz)]
  /\ pc' = "conditionEvaluated"
  /\ UNCHANGED <<pages, tz, today, engine, rules, buckets, transactions, idx, sortedBuckets,
                 result, inTx, inCond, inGroup>>

EvaluateGroup ==
  /\ pc = "group"
  /\ outcome' = [service |-> evaluateFilterGroup(inTx, inGroup, tz),
                 part_003 |-> evaluateFilterGroup_p3(inTx, inGroup, tz)]
  /\ pc' = "groupEvaluated"
  /\ UNCHANGED <<pages, tz, today, engine, rules, buckets, transactions, idx, sortedBuckets,
                 result, inTx, inCond, inGroup>>

(***************************************************************************)
(* Inputs.                                                                 *)
(***************************************************************************)
MaxTx == 2
MaxBuckets == 2
MaxConds == 2
MaxSubs == 2
Priorities == {1, 2}

Tx(id, posted, amount, payee, before, after) ==
  [id |-> id, posted |-> posted, amountNum |-> Num(amount), payee |-> payee,
   description |-> Str(<<"P", "O", "S">>), orgName |-> Str(<<"B", "a", "n", "k">>),
   accountName |-> Str(<<"M", "a", "i", "n">>),
   balanceBefore |-> before, balanceAfter |-> after]

Cond(field, operator, value, value2, useAbsoluteAmount) ==
  [field |-> field, operator |-> operator, value |-> value, value2 |-> value2,
   useAbsoluteAmount |-> useAbsoluteAmount]

Group(operator, conditions, subGroups) ==
  [t |-> "group", operator |-> operator, conditions |-> conditions, subGroups |-> subGroups]

Rule(id, filterGroup) == [t |-> "rule", id |-> id, filterGroup |-> filterGroup]

Link(ruleId, isActive) == [ruleId |-> ruleId, isActive |-> isActive]

Amazon == <<"A", "m", "a", "z", "o", "n">>

\* the transactions handed to the classifier
TxPool ==
  { Tx("t1", 30, -5000, Str(Amazon), Undefined, Undefined),
    Tx("t2", 31, -999, Str(<<"C", "a", "f", "e">>), Undefined, Undefined),
    Tx("t3", 55, 2000, Undefined, Undefined, Undefined) }

\* the saved rules: payee is exactly amazon; payee contains a; the absolute amount
\* lies between 10 and 20 (in a sub-group)
RuleStore ==
  << Rule("rAmazon",
          Group("AND", <<Cond("payeeName", "exactMatch", Str(<<"a", "m", "a", "z", "o", "n">>),
                              Undefined, FALSE)>>, <<>>)),
     Rule("rHasA",
          Group("OR", <<Cond("payeeName", "contains", Str(<<"a">>), Undefined, FALSE)>>, <<>>)),
     Rule("rTen20",
          Group("AND", <<>>,
                <<Group("OR", <<Cond("amountTransacted", "between", Str(<<"1", "0">>),
                                     Str(<<"2", "0">>), TRUE)>>, <<>>)>>)) >>

\* the rule associations a bucket may carry; rule "gone" is not saved
RuleLinkings ==
  { <<>>,
    <<Link("rAmazon", TRUE)>>,
    <<Link("rHasA", TRUE)>>,
    <<Link("rHasA", FALSE)>>,
    <<Link("gone", TRUE), Link("rTen20", TRUE)>>,
    <<Link("rAmazon", FALSE), Link("rTen20", TRUE)>> }

SeqsOfLen(S, n) == [1..n -> S]
SeqsUpTo(S, n) == UNION {SeqsOfLen(S, k) : k \in 0..n}
DistinctSeqsUpTo(S, n) ==
  {q \in SeqsUpTo(S, n) : \A i, j \in 1..Len(q) : i # j => q[i] # q[j]}

BucketId(k) == <<"bucket", k>>

\* The bucket lists BudgetConfigService hands out: the ids are distinct
\* (crypto.randomUUID) and the list is kept sorted by priority (loadBuckets,
\* saveBuckets).
BucketLists ==
  { [k \in 1..Len(ps) |-> [id |-> BucketId(k), name |-> BucketId(k),
                           priority |-> ps[k], rules |-> ls[k]]] :
      <<ps, ls>> \in UNION { {q \in SeqsOfLen(Priorities, n) :
                                \A i \in 1..(n - 1) : q[i] <= q[i + 1]}
                             \X SeqsOfLen(RuleLinkings, n) : n \in 0..MaxBuckets } }

NoOutcome == [service |-> FALSE, part_003 |-> FALSE]
NoResult == [categorized |-> <<>>, uncategorized |-> <<>>]

Init ==
  /\ tz = 0
  /\ NoPages
  /\ today = 0
  /\ engine \in Engines
  /\ rules = RuleStore
  /\ buckets \in BucketLists
  /\ transactions \in DistinctSeqsUpTo(TxPool, MaxTx)
  /\ pc = "called"
  /\ idx = 0
  /\ sortedBuckets = <<>>
  /\ result = NoResult
  /\ inTx = Null
  /\ inCond = Null
  /\ inGroup = Null
  /\ outcome = NoOutcome

Next == ApplyRulesStart \/ ApplyRulesTx \/ ApplyRulesReturn

Spec == Init /\ [][Next]_vars

(***************************************************************************)
(* One condition against one transaction.                                  *)
(***************************************************************************)
\* the twelve filterable fields, and one that is no field of a transaction
Fields ==
  {"payeeName", "descriptionText", "orgName", "accountName", "amountTransacted",
   "balanceBefore", "balanceAfter", "dayOfWeek", "weekOfMonth", "monthOfYear",
   "transactionTime", "postedDate", "nickname"}

Operators == StringOperators \cup NumericOperators \cup DateOperators

\* comparison values: null, the number 50, the texts 10, abc, a and 1970-01-02
Values ==
  {Null, Num(5000), Str(<<"1", "0">>), Str(<<"a", "b", "c">>), Str(<<"a">>),
   Str(<<"1", "9", "7", "0", "-", "0", "1", "-", "0", "2">>)}

\* second values: none, the text 20, the text x
Values2 == {Undefined, Str(<<"2", "0">>), Str(<<"x">>)}

Conditions ==
  {Cond(f, o, v, w, a) : f \in Fields, o \in Operators, v \in Values, w \in Values2,
                         a \in BOOLEAN}

\* the transactions handed to evaluateCondition: payee and balances present or not
CondTxPool ==
  { Tx("c1", 30, 1000, Str(Amazon), Num(999), Num(2000)),
    Tx("c2", 5, 2000, Undefined, Undefined, Undefined),
    Tx("c3", 54, -5000, Str(<<"a", "b", "c">>), Null, Num(-1000)),
    Tx("c4", 30, 999, Undefined, Num(-2001), Null),
    Tx("c5", -20, 2001, Str(<<"1", "0">>), Num(5000), Num(-999)),
    Tx("c6", 700, 5000, Str(<<"B", "P">>), Num(50), Num(0)) }

InitCond ==
  /\ tz = 0
  /\ NoPages
  /\ today = 0
  /\ engine = "service"
  /\ rules = <<>>
  /\ buckets = <<>>
  /\ transactions = <<>>
  /\ pc = "condition"
  /\ idx = 0
  /\ sortedBuckets = <<>>
  /\ result = NoResult
  /\ inTx \in CondTxPool
  /\ inCond \in Conditions
  /\ inGroup = Null
  /\ outcome = NoOutcome

NextCond == EvaluateCondition

SpecCond == InitCond /\ [][NextCond]_vars

(***************************************************************************)
(* One filter group against one transaction.                               *)
(***************************************************************************)
\* two conditions: the payee contains a; the amount is below -20
PayeeHasA == Cond("payeeName", "contains", Str(<<"a">>), Undefined, FALSE)
AmountBelow == Cond("amountTransacted", "lessThan", Str(<<"-", "2", "0">>), Undefined, FALSE)
GroupConds == {PayeeHasA, AmountBelow}

\* the sub-groups: no sub-groups of their own, at most one condition
SubGroups ==
  { Group("AND", <<>>, <<>>), Group("OR", <<>>, <<>>),
    Group("AND", <<PayeeHasA>>, <<>>), Group("OR", <<AmountBelow>>, <<>>) }

\* the groups: up to MaxConds conditions and up to MaxSubs sub-groups
Groups ==
  {Group(o, cs, gs) : o \in {"AND", "OR"}, cs \in SeqsUpTo(GroupConds, MaxConds),
                      gs \in SeqsUpTo(SubGroups, MaxSubs)}

\* the transactions handed to evaluateFilterGroup: each of the two conditions holds
\* for two of them, both for one, neither for one
GroupTxPool == TxPool \cup {Tx("t4", 80, -2001, Str(<<"B", "P">>), Undefined, Undefined)}

InitGroup ==
  /\ tz = 0
  /\ NoPages
  /\ today = 0
  /\ engine = "service"
  /\ rules = <<>>
  /\ buckets = <<>>
  /\ transactions = <<>>
  /\ pc = "group"
  /\ idx = 0
  /\ sortedBuckets = <<>>
  /\ result = NoResult
  /\ inTx \in GroupTxPool
  /\ inCond = Null
  /\ inGroup \in Groups
  /\ outcome = NoOutcome

NextGroup == EvaluateGroup

SpecGroup == InitGroup /\ [][NextGroup]_vars

(***************************************************************************)
(* Properties of applyRulesToTransactions.                                 *)
(***************************************************************************)
RECURSIVE SumOf(_, _)
SumOf(f, S) ==
  IF S = {} THEN 0
  ELSE LET x == CHOOSE y \in S : TRUE IN f[x] + SumOf(f, S \ {x})

\* the number of entries of the list q that carry the transaction tx
Copies(q, tx) == Cardinality({i \in 1..Len(q) : q[i].tx = tx})

\* the number of entries that carry tx in all the output lists together
CopiesInResult(res, tx) ==
  Copies(res.uncategorized, tx)
    + SumOf([id \in DOMAIN res.categorized |-> Copies(res.categorized[id], tx)],
            DOMAIN res.categorized)

\* the sizes of all the output lists together
SizeOfResult(res) ==
  Len(res.uncategorized)
    + SumOf([id \in DOMAIN res.categorized |-> Len(res.categorized[id])],
            DOMAIN res.categorized)

\* bucket b has an association that is active, names a saved rule, and whose rule
\* the engine in use finds matching tx
Eligible(tx, b) ==
  \E i \in 1..Len(b.rules) :
    /\ b.rules[i].isActive
    /\ \E r \in 1..Len(rules) :
         /\ rules[r].id = b.rules[i].ruleId
         /\ evaluateTransactionAgainstRule(engine, tx, rules[r], tz)

\* tx has an entry in the output list of bucket b
InBucket(tx, b) == Copies(result.categorized[b.id], tx) > 0

Running == pc \in {"loop", "returned"}

\* C1: every transaction the loop has dealt with has exactly one entry in the
\* output lists taken together, the others have none, and the sizes of the bucket
\* lists plus the uncategorized list add up to the number of transactions dealt
\* with - on return, to the number of input transactions.
C1_ExactlyOneCollection ==
  Running =>
    /\ \A i \in 1..Len(transactions) :
         CopiesInResult(result, transactions[i]) = (IF i <= idx THEN 1 ELSE 0)
    /\ SizeOfResult(result) = idx
    /\ (pc = "returned" => SizeOfResult(result) = Len(transactions))

\* two transactions classified, one that two buckets could take, one that none can
C1_Witness ==
  /\ pc = "returned"
  /\ Len(transactions) = 2
  /\ Len(result.uncategorized) = 1
  /\ \E i \in 1..2 :
       Cardinality({k \in 1..Len(buckets) : Eligible(transactions[i], buckets[k])}) = 2

\* C2: a transaction that an active rule of one or more buckets matches is in the
\* list of a bucket, and every bucket holding it is one of those buckets and has
\* the lowest priority number among them.
C2_LowestPriorityNumberWins ==
  Running =>
    \A i \in 1..idx :
      (\E k \in 1..Len(buckets) : Eligible(transactions[i], buckets[k])) =>
        /\ \E m \in 1..Len(buckets) : InBucket(transactions[i], buckets[m])
        /\ \A m \in 1..Len(buckets) :
             InBucket(transactions[i], buckets[m]) =>
               /\ Eligible(transactions[i], buckets[m])
               /\ \A j \in 1..Len(buckets) :
                    Eligible(transactions[i], buckets[j]) =>
                      buckets[m].priority <= buckets[j].priority

\* a transaction that buckets of priority 1 and 2 could both take sits in the first
C2_Witness ==
  /\ pc = "returned"
  /\ \E i \in 1..Len(transactions) : \E m, j \in 1..Len(buckets) :
       /\ buckets[m].priority < buckets[j].priority
       /\ Eligible(transactions[i], buckets[m])
       /\ Eligible(transactions[i], buckets[j])
       /\ InBucket(transactions[i], buckets[m])

\* C3: a transaction is in the uncategorized list exactly when no bucket has an
\* association that is active, names a saved rule and matches it.  So an inactive
\* association whose rule matches assigns nothing, and an association naming no
\* saved rule is passed over: the associations and buckets after it still count.
C3_UncategorizedIffNoActiveResolvableMatch ==
  Running =>
    /\ \A i \in 1..idx :
         Copies(result.uncategorized, transactions[i]) > 0
           <=> ~\E k \in 1..Len(buckets) : Eligible(transactions[i], buckets[k])
    /\ \A i \in 1..idx : \A k \in 1..Len(buckets) :
         InBucket(transactions[i], buckets[k]) => Eligible(transactions[i], buckets[k])

\* the rule of association a of bucket b is saved and matches tx
LinkedRuleMatches(tx, a) ==
  \E r \in 1..Len(rules) :
    rules[r].id = a.ruleId /\ evaluateTransactionAgainstRule(engine, tx, rules[r], tz)

\* one transaction is uncategorized although an inactive association's rule matches
\* it; another sits in a bucket whose first association names no saved rule
C3_Witness ==
  /\ pc = "returned"
  /\ \E i \in 1..Len(transactions) :
       /\ Copies(result.uncategorized, transactions[i]) > 0
       /\ \E k \in 1..Len(buckets) : \E a \in 1..Len(buckets[k].rules) :
            /\ ~buckets[k].rules[a].isActive
            /\ LinkedRuleMatches(transactions[i], buckets[k].rules[a])
  /\ \E i \in 1..Len(transactions) : \E k \in 1..Len(buckets) :
       /\ InBucket(transactions[i], buckets[k])
       /\ Len(buckets[k].rules) > 1
       /\ \A r \in 1..Len(rules) : rules[r].id # buckets[k].rules[1].ruleId

\* the place of tx in the input list
InputPlace(tx) == CHOOSE i \in 1..Len(transactions) : transactions[i] = tx

\* the entries of q follow one another as their transactions do in the input
InInputOrder(q) ==
  \A a, b \in 1..Len(q) : a < b => InputPlace(q[a].tx) < InputPlace(q[b].tx)

\* C4: in every bucket's list and in the uncategorized list the transactions
\* follow one another in the order they have in the input list.
C4_StablePartition ==
  Running =>
    /\ InInputOrder(result.uncategorized)
    /\ \A id \in DOMAIN result.categorized : InInputOrder(result.categorized[id])

\* a bucket's list holds two transactions
C4_Witness ==
  /\ pc = "returned"
  /\ \E id \in DOMAIN result.categorized : Len(result.categorized[id]) = 2

\* C5: when two buckets of the same priority each have an active rule matching a
\* transaction, the transaction is not in the list of the one that stands later in
\* the input bucket list; it is in the list of the earlier one when no other bucket
\* that could take it has a lower priority number or stands before it in the tie.
C5_TieGoesToFirstInInput ==
  Running =>
    \A i \in 1..idx : \A k \in 1..Len(buckets) : \A j \in 1..(k - 1) :
      (/\ buckets[j].priority = buckets[k].priority
       /\ Eligible(transactions[i], buckets[j])
       /\ Eligible(transactions[i], buckets[k]))
        => /\ ~InBucket(transactions[i], buckets[k])
           /\ (\A m \in 1..Len(buckets) :
                 Eligible(transactions[i], buckets[m]) =>
                   \/ buckets[m].priority > buckets[j].priority
                   \/ buckets[m].priority = buckets[j].priority /\ m >= j)
                => InBucket(transactions[i], buckets[j])

\* two buckets of one priority could take a transaction; the first has it
C5_Witness ==
  /\ pc = "returned"
  /\ \E i \in 1..Len(transactions) : \E j, k \in 1..Len(buckets) :
       /\ j < k
       /\ buckets[j].priority = buckets[k].priority
       /\ Eligible(transactions[i], buckets[j])
       /\ Eligible(transactions[i], buckets[k])
       /\ InBucket(transactions[i], buckets[j])

(***************************************************************************)
(* Properties of evaluateFilterGroup.                                      *)
(***************************************************************************)
\* the result of condition c for tx, by the engine e
ConditionHolds(e, tx, c) ==
  IF e = "service" THEN evaluateCondition(tx, c, tz) ELSE evaluateCondition_p3(tx, c, tz)

RECURSIVE FlatSetResult(_, _, _)
\* the group's operator applied to its conditions and its sub-groups as one set:
\* all of them under AND, at least one of them under OR
FlatSetResult(e, tx, g) ==
  IF g.operator = "AND"
  THEN /\ \A i \in 1..Len(g.conditions) : ConditionHolds(e, tx, g.conditions[i])
       /\ \A j \in 1..Len(g.subGroups) : FlatSetResult(e, tx, g.subGroups[j])
  ELSE \/ \E i \in 1..Len(g.conditions) : ConditionHolds(e, tx, g.conditions[i])
       \/ \E j \in 1..Len(g.subGroups) : FlatSetResult(e, tx, g.subGroups[j])

\* C6: both engines return, for an AND group, the conjunction and, for an OR group,
\* the disjunction of the results of its conditions and sub-groups taken as one
\* set; a group with neither conditions nor sub-groups is true under AND and false
\* under OR.
C6_GroupIsFlatConjunctionOrDisjunction ==
  pc = "groupEvaluated" =>
    /\ outcome.service = FlatSetResult("service", inTx, inGroup)
    /\ outcome.part_003 = FlatSetResult("part_003", inTx, inGroup)
    /\ (Len(inGroup.conditions) = 0 /\ Len(inGroup.subGroups) = 0) =>
         /\ outcome.service = (inGroup.operator = "AND")
         /\ outcome.part_003 = (inGroup.operator = "AND")

\* an OR group whose own conditions all fail is true through a sub-group
C6_Witness ==
  /\ pc = "groupEvaluated"
  /\ inGroup.operator = "OR"
  /\ Len(inGroup.conditions) > 0
  /\ Len(inGroup.subGroups) > 0
  /\ \A i \in 1..Len(inGroup.conditions) : ~ConditionHolds("service", inTx, inGroup.conditions[i])
  /\ outcome.service
  /\ outcome.part_003

RECURSIVE Wrapped(_, _)
\* g inside one group per operator of ops, each with no conditions and the chain
\* below it as its only sub-group
Wrapped(g, ops) ==
  IF ops = <<>> THEN g
  ELSE Group(Head(ops), <<>>, <<Wrapped(g, Tail(ops))>>)

WrapDepths == {0, 1, 5}

\* C7: a group inside 0, 1 or 5 levels of groups that have no conditions and the
\* chain as their single sub-group evaluates, whatever the operators of the
\* wrapping groups, to what the group evaluates to on its own.
C7_EmptyWrappersChangeNothing ==
  pc = "groupEvaluated" =>
    \A n \in WrapDepths : \A ops \in SeqsOfLen({"AND", "OR"}, n) :
      /\ evaluateFilterGroup(inTx, Wrapped(inGroup, ops), tz) = outcome.service
      /\ evaluateFilterGroup_p3(inTx, Wrapped(inGroup, ops), tz) = outcome.part_003

\* a group that holds, and still holds inside five wrappers of mixed operators
C7_Witness ==
  /\ pc = "groupEvaluated"
  /\ Len(inGroup.conditions) > 0
  /\ outcome.service
  /\ evaluateFilterGroup(inTx, Wrapped(inGroup, <<"OR", "AND", "AND", "OR", "AND">>), tz)

(***************************************************************************)
(* Properties of evaluateCondition.                                        *)
(***************************************************************************)
\* the transaction carries nothing for the condition's field: an optional field
\* that is undefined or null, or a field transactions do not have
FieldAbsent(tx, c) ==
  \/ c.field = "payeeName" /\ tx.payee.t \in {"undefined", "null"}
  \/ c.field = "balanceBefore" /\ tx.balanceBefore.t \in {"undefined", "null"}
  \/ c.field = "balanceAfter" /\ tx.balanceAfter.t \in {"undefined", "null"}
  \/ c.field = "nickname"

\* equalTo or notEqualTo with a comparison value that is null itself
ComparesWithNull(c) == c.operator \in {"equalTo", "notEqualTo"} /\ c.value = Null

Mirror(tx, field) ==
  CASE field = "amountTransacted" /\ tx.amountNum.t = "num" ->
         [tx EXCEPT !.amountNum = Num(0 - tx.amountNum.n)]
    [] field = "balanceBefore" /\ tx.balanceBefore.t = "num" ->
         [tx EXCEPT !.balanceBefore = Num(0 - tx.balanceBefore.n)]
    [] field = "balanceAfter" /\ tx.balanceAfter.t = "num" ->
         [tx EXCEPT !.balanceAfter = Num(0 - tx.balanceAfter.n)]
    [] OTHER -> tx

\* C9: with useAbsoluteAmount set, a numeric operator on a money field gives for a
\* transaction what it gives for the transaction with the sign of that field
\* turned; equalTo 50 holds for the amounts 50 and -50.
C9_AbsoluteAmountIgnoresSign ==
  (/\ pc = "conditionEvaluated"
   /\ inCond.field \in MoneyFields
   /\ inCond.operator \in NumericOperators
   /\ inCond.useAbsoluteAmount) =>
    /\ outcome.service = evaluateCondition(Mirror(inTx, inCond.field), inCond, tz)
    /\ outcome.part_003 = evaluateCondition_p3(Mirror(inTx, inCond.field), inCond, tz)
    /\ (/\ inCond.operator = "equalTo"
        /\ inCond.value = Num(5000)
        /\ inCond.field = "amountTransacted"
        /\ inTx.amountNum \in {Num(5000), Num(-5000)}) => (outcome.service /\ outcome.part_003)

\* equalTo 50 on the absolute amount holds for the amount -50
C9_Witness ==
  /\ pc = "conditionEvaluated"
  /\ inCond.field = "amountTransacted"
  /\ inCond.operator = "equalTo"
  /\ inCond.useAbsoluteAmount
  /\ inCond.value = Num(5000)
  /\ inTx.amountNum = Num(-5000)
  /\ outcome.service
  /\ outcome.part_003

\* the money value the condition's field has on the transaction
MoneyValue(tx, field) ==
  CASE field = "amountTransacted" -> tx.amountNum
    [] field = "balanceBefore" -> tx.balanceBefore
    [] field = "balanceAfter" -> tx.balanceAfter

\* the lower bounds a condition's value stands for: the text 10 and the number 50
LowerBounds == {<<Str(<<"1", "0">>), 1000>>, <<Num(5000), 5000>>}

\* the amount between compares: its absolute value when the condition asks for it
Compared(n, c) == IF c.useAbsoluteAmount /\ n < 0 THEN 0 - n ELSE n

\* C10: between on a money value holds exactly for the values from value to value2,
\* both ends included (10 and 20 are in, 9.99 and 20.01 are out), and never holds
\* when value2 is missing or is no number.
C10_BetweenInclusive ==
  (pc = "conditionEvaluated" /\ inCond.operator = "between") =>
    /\ inCond.value2 \in {Undefined, Str(<<"x">>)} => (~outcome.service /\ ~outcome.part_003)
    /\ \A lb \in LowerBounds :
         (/\ inCond.value = lb[1]
          /\ inCond.value2 = Str(<<"2", "0">>)
          /\ inCond.field \in MoneyFields
          /\ MoneyValue(inTx, inCond.field).t = "num") =>
           /\ outcome.service =
                (/\ lb[2] <= Compared(MoneyValue(inTx, inCond.field).n, inCond)
                 /\ Compared(MoneyValue(inTx, inCond.field).n, inCond) <= 2000)
           /\ outcome.part_003 = outcome.service

\* between 10 and 20 holds for a balance of exactly 20
C10_Witness ==
  /\ pc = "conditionEvaluated"
  /\ inCond.operator = "between"
  /\ inCond.field = "balanceAfter"
  /\ inCond.value = Str(<<"1", "0">>)
  /\ inCond.value2 = Str(<<"2", "0">>)
  /\ inTx.balanceAfter = Num(2000)
  /\ outcome.service
  /\ outcome.part_003

(***************************************************************************)
(* Operators against fields of another type, and values that do not parse. *)
(***************************************************************************)
\* the type the configuration page declares for a field
FieldType(f) ==
  CASE f \in {"payeeName", "descriptionText", "orgName", "accountName"} -> "string"
    [] f \in MoneyFields -> "number"
    [] f \in {"dayOfWeek", "weekOfMonth", "monthOfYear"} -> "datePart"
    [] f = "transactionTime" -> "timeString"
    [] f = "postedDate" -> "date"
    [] OTHER -> "none"

\* a string operator on a number or date field, a numeric operator on a string
\* field, a date operator on a field that is no date
Mismatched(c) ==
  \/ c.operator \in StringOperators /\ FieldType(c.field) \in {"number", "date"}
  \/ c.operator \in NumericOperators /\ FieldType(c.field) = "string"
  \/ c.operator \in DateOperators /\ FieldType(c.field) \in {"string", "number", "datePart", "timeString"}

\* C11 as the specification states it: a condition whose operator is not of its
\* field's type is false for every transaction and comparison value, by both
\* engines.
C11_MismatchIsFalse ==
  (pc = "conditionEvaluated" /\ Mismatched(inCond)) =>
    (~outcome.service /\ ~outcome.part_003)

\* the comparison value is no number: null, or a text parseFloat finds no number in
Unparsable(v) == v \in {Null, Str(<<"a", "b", "c">>), Str(<<"a">>)}

\* C12 as the specification states it: a numeric operator whose comparison value
\* does not parse as a number is false for every transaction, by both engines.
C12_UnparsableNumberIsFalse ==
  (pc = "conditionEvaluated" /\ inCond.operator \in NumericOperators /\ Unparsable(inCond.value)) =>
    (~outcome.service /\ ~outcome.part_003)

\* C12 for rule-engine.service.ts alone, on the amount, which every transaction
\* has, and the comparison value abc
C12_UnparsableNumberIsFalse_service ==
  (/\ pc = "conditionEvaluated"
   /\ inCond.operator \in NumericOperators
   /\ inCond.value = Str(<<"a", "b", "c">>)
   /\ inCond.field = "amountTransacted") => ~outcome.service

(***************************************************************************)
(* Classification with rules that are malformed.                           *)
(***************************************************************************)
\* a rule of one condition
RuleOf(id, field, operator, value) ==
  Rule(id, Group("AND", <<Cond(field, operator, value, Undefined, FALSE)>>, <<>>))

\* rules with a pattern that is no regular expression, with numbers that do not
\* parse and with a date that does not parse, and two rules that are in order
MalformedRuleStore ==
  << RuleOf("rBadRegex", "payeeName", "regex", Str(<<"(">>)),
     RuleOf("rBadNumber", "amountTransacted", "greaterThan", Str(<<"a", "b", "c">>)),
     RuleOf("rBadNotEqual", "amountTransacted", "notEqualTo", Str(<<"a", "b", "c">>)),
     RuleOf("rBadDate", "postedDate", "onDate", Str(<<"a", "b", "c">>)),
     RuleStore[2],
     RuleStore[3] >>

MalformedRuleIds == {"rBadRegex", "rBadNumber", "rBadNotEqual", "rBadDate"}

MalformedLinkings ==
  { <<Link("rBadRegex", TRUE), Link("rHasA", TRUE)>>,
    <<Link("rBadNumber", TRUE), Link("rTen20", TRUE)>>,
    <<Link("rBadDate", TRUE)>>,
    <<Link("rBadNotEqual", TRUE)>>,
    <<Link("rHasA", TRUE)>>,
    <<Link("rBadRegex", TRUE), Link("rBadDate", TRUE), Link("rBadNumber", TRUE)>> }

MalformedBucketLists ==
  { [k \in 1..Len(ps) |-> [id |-> BucketId(k), name |-> BucketId(k),
                           priority |-> ps[k], rules |-> ls[k]]] :
      <<ps, ls>> \in UNION { {q \in SeqsOfLen(Priorities, n) :
                                \A i \in 1..(n - 1) : q[i] <= q[i + 1]}
                             \X SeqsOfLen(MalformedLinkings, n) : n \in 0..MaxBuckets } }

InitMalformed ==
  /\ tz = 0
  /\ NoPages
  /\ today = 0
  /\ engine \in Engines
  /\ rules = MalformedRuleStore
  /\ buckets \in MalformedBucketLists
  /\ transactions \in DistinctSeqsUpTo(TxPool, MaxTx)
  /\ pc = "called"
  /\ idx = 0
  /\ sortedBuckets = <<>>
  /\ result = NoResult
  /\ inTx = Null
  /\ inCond = Null
  /\ inGroup = Null
  /\ outcome = NoOutcome

NextMalformed == ApplyRulesStart \/ ApplyRulesTx \/ ApplyRulesReturn

SpecMalformed == InitMalformed /\ [][NextMalformed]_vars

\* bucket b has an active association to a saved rule in order that matches tx
EligibleByRuleInOrder(tx, b) ==
  \E i \in 1..Len(b.rules) :
    /\ b.rules[i].isActive
    /\ b.rules[i].ruleId \notin MalformedRuleIds
    /\ LinkedRuleMatches(tx, b.rules[i])

\* C13 as the specification states it: every transaction dealt with is placed
\* exactly once, and placed as if the malformed rules matched nothing: in a bucket
\* only through a rule in order, uncategorized exactly when no rule in order of any
\* bucket matches it.
C13_MalformedRuleIsFailedMatch ==
  Running =>
    /\ \A i \in 1..Len(transactions) :
         CopiesInResult(result, transactions[i]) = (IF i <= idx THEN 1 ELSE 0)
    /\ \A i \in 1..idx :
         /\ Copies(result.uncategorized, transactions[i]) > 0
              <=> ~\E k \in 1..Len(buckets) : EligibleByRuleInOrder(transactions[i], buckets[k])
         /\ \A k \in 1..Len(buckets) :
              InBucket(transactions[i], buckets[k])
                => EligibleByRuleInOrder(transactions[i], buckets[k])

(***************************************************************************)
(* Date conditions in several time zones.                                  *)
(***************************************************************************)
\* hours the local clock is ahead of UTC
TimeZones == {-5, 0, 9}

Jan02 == Str(<<"1", "9", "7", "0", "-", "0", "1", "-", "0", "2">>)
Jan03 == Str(<<"1", "9", "7", "0", "-", "0", "1", "-", "0", "3">>)
Jan04 == Str(<<"1", "9", "7", "0", "-", "0", "1", "-", "0", "4">>)

DateConditions ==
  { Cond("postedDate", op, v, v2, FALSE) :
      op \in DateOperators, v \in {Jan02, Jan03}, v2 \in {Jan03, Jan04} }

\* transactions posted at the hours 20 .. 100 after the epoch, every four hours
DateTxPool ==
  { Tx(<<"d", h>>, h, -1000, Str(Amazon), Undefined, Undefined) :
      h \in {20 + 4 * k : k \in 0..20} }

InitDate ==
  /\ tz \in TimeZones
  /\ NoPages
  /\ today = 0
  /\ engine = "service"
  /\ rules = <<>>
  /\ buckets = <<>>
  /\ transactions = <<>>
  /\ pc = "condition"
  /\ idx = 0
  /\ sortedBuckets = <<>>
  /\ result = NoResult
  /\ inTx \in DateTxPool
  /\ inCond \in DateConditions
  /\ inGroup = Null
  /\ outcome = NoOutcome

NextDate == EvaluateCondition

SpecDate == InitDate /\ [][NextDate]_vars

\* the comparison of whole local calendar days that a date operator stands for
LocalDayComparison(op, txDay, day1, day2) ==
  CASE op = "onDate" -> txDay = day1
    [] op = "beforeDate" -> txDay < day1
    [] op = "afterDate" -> txDay > day1
    [] op = "betweenDates" -> txDay >= day1 /\ txDay <= day2

ExpectedOfDates ==
  LocalDayComparison(inCond.operator, LocalDay(inTx.posted, tz),
                     DayOfIsoDate(inCond.value.s), DayOfIsoDate(inCond.value2.s))

\* C14 as the specification states it: in every time zone a date operator on the
\* posted date gives the comparison of the transaction's local calendar day with
\* the calendar day(s) the filter names, in both evaluators.
C14_DateOperatorsCompareLocalDays ==
  (pc = "conditionEvaluated" /\ inCond.field = "postedDate"
     /\ inCond.operator \in DateOperators)
    => (outcome.service = ExpectedOfDates /\ outcome.part_003 = ExpectedOfDates)

(***************************************************************************)
(* The week of the month, over every day of 1969 and 1970.                 *)
(***************************************************************************)
\* RuleEngineService.getWeekOfMonth of part_003
getWeekOfMonth_p3(h, z) ==
  weekOfMonthOf(DateOfDay(LocalDay(h, z)), WeekdayOfDay(FirstOfMonth(LocalDay(h, z))))

GetWeekOfMonth ==
  /\ pc = "week"
  /\ outcome' = [service |-> getWeekOfMonth(inTx.posted, tz),
                 part_003 |-> getWeekOfMonth_p3(inTx.posted, tz)]
  /\ pc' = "weekComputed"
  /\ UNCHANGED <<pages, tz, today, engine, rules, buckets, transactions, idx, sortedBuckets,
                 result, inTx, inCond, inGroup>>

\* transactions posted at noon UTC of every day of 1969 and 1970
WeekTxPool ==
  { Tx(<<"w", d>>, 24 * d + 12, -1000, Str(Amazon), Undefined, Undefined) :
      d \in -365..364 }

InitWeek ==
  /\ tz \in TimeZones
  /\ NoPages
  /\ today = 0
  /\ engine = "service"
  /\ rules = <<>>
  /\ buckets = <<>>
  /\ transactions = <<>>
  /\ pc = "week"
  /\ idx = 0
  /\ sortedBuckets = <<>>
  /\ result = NoResult
  /\ inTx \in WeekTxPool
  /\ inCond = Null
  /\ inGroup = Null
  /\ outcome = NoOutcome

NextWeek == GetWeekOfMonth

SpecWeek == InitWeek /\ [][NextWeek]_vars

\* w is the ceiling of n / 7
IsCeilingOfSevenths(w, n) == 7 * w >= n /\ 7 * (w - 1) < n

PostedDayOfMonth == DateOfDay(LocalDay(inTx.posted, tz))
FirstWeekdayOfPostedMonth == WeekdayOfDay(FirstOfMonth(LocalDay(inTx.posted, tz)))

\* C15 as the specification states it: the week of the month is the ceiling of
\* (day of month + weekday of the first of the month) / 7, is 1 on day 1, and lies
\* in 1..5, in both evaluators.
C15_WeekOfMonthInOneToFive ==
  pc = "weekComputed" =>
    /\ outcome.service = outcome.part_003
    /\ IsCeilingOfSevenths(outcome.service, PostedDayOfMonth + FirstWeekdayOfPostedMonth)
    /\ (PostedDayOfMonth = 1 => outcome.service = 1)
    /\ outcome.service \in 1..5

(***************************************************************************)
(* Goal progress: DashboardComponent.getActualGoalDateRange and            *)
(* calculateBucketGoalData of part_009, and the goal block of              *)
(* categorizeTransactions of part_010.  Instants are whole hours; amounts   *)
(* are hundredths.                                                         *)
(***************************************************************************)
Goal(isActive, targetAmount, goalType, periodType, startDate, endDate, rollingDays) ==
  [t |-> "goal", isActive |-> isActive, targetAmount |-> targetAmount,
   goalType |-> goalType, periodType |-> periodType, startDate |-> startDate,
   endDate |-> endDate, rollingDays |-> rollingDays]

\* startOfDay: new Date(y, m, d) of the local day of instant h
startOfDay(h, z) == LocalMidnight(LocalDay(h, z), z)
\* endOfDay: 23:59:59.999 of the local day of instant h.  A whole hour is at or
\* before it exactly when it is before the next local midnight.
endOfDay(h, z) == LocalMidnight(LocalDay(h, z) + 1, z) - 1

\* new Date(year, month + 1, 0): the last day of d's month
LastOfMonth(d) == FirstOfMonth(d) + MonthLengths[MonthOfDay(d) + 1] - 1
\* new Date(year, 0, 1) and new Date(year, 11, 31)
FirstOfYear(d) == IF YearOfDay(d) = 1969 THEN -365 ELSE 0
LastOfYear(d) == FirstOfYear(d) + 364

\* new Date(s + "T00:00:00"): local midnight of the day s names, or Invalid Date
NewDateLocalMidnight(s, z) ==
  IF DayOfIsoDate(s) = -1000 THEN InvalidDate
  ELSE DateAt(LocalMidnight(DayOfIsoDate(s), z))

DateRange(start, end) == [t |-> "range", start |-> start, end |-> end]

\* case FIXED_DATE_RANGE, once both texts are there
fixedDateRange(startDate, endDate, z) ==
  IF startDate.t # "date" \/ endDate.t # "date" THEN Null
  ELSE DateRange(startOfDay(startDate.h, z), endOfDay(endDate.h, z))

\* getActualGoalDateRange(goal), with today = now
getActualGoalDateRange(goal, now, z) ==
  CASE goal.periodType = "current_month" ->
         DateRange(LocalMidnight(FirstOfMonth(LocalDay(now, z)), z),
                   LocalMidnight(LastOfMonth(LocalDay(now, z)) + 1, z) - 1)
    [] goal.periodType = "rolling_days" ->
         IF ~Truthy(goal.rollingDays) \/ goal.rollingDays.n <= 0 THEN Null
         ELSE DateRange(startOfDay(now - ((goal.rollingDays.n - 100) * 24) \div 100, z),
                        endOfDay(now, z))
    [] goal.periodType = "fixed_date_range" ->
         IF ~Truthy(goal.startDate) \/ ~Truthy(goal.endDate) THEN Null
         ELSE fixedDateRange(NewDateLocalMidnight(goal.startDate.s, z),
                             NewDateLocalMidnight(goal.endDate.s, z), z)
    [] goal.periodType = "current_year" ->
         DateRange(LocalMidnight(FirstOfYear(LocalDay(now, z)), z),
                   LocalMidnight(LastOfYear(LocalDay(now, z)) + 1, z) - 1)
    [] goal.periodType = "all_time" ->
         \* 1970-01-01 and 2999-12-31, local midnight
         DateRange(LocalMidnight(0, z), LocalMidnight(376199, z))
    [] OTHER -> Null

\* getGoalPeriodDisplayString, without the dates and numbers it formats in
getGoalPeriodDisplayString(goal, range) ==
  IF range = Null THEN "Invalid Period"
  ELSE CASE goal.periodType = "current_month" -> "This Month"
         [] goal.periodType = "rolling_days" -> "Last Days"
         [] goal.periodType = "fixed_date_range" -> "start - end"
         [] goal.periodType = "current_year" -> "This Year"
         [] goal.periodType = "all_time" -> "All Time"
         [] OTHER -> "N/A"

\* the percentage n / d * 100
Percent(n, d) == [t |-> "percent", n |-> n, d |-> d]

GoalData(configured, target, period, currentSum, relevant, progress, remaining, met) ==
  [goalIsActiveAndConfigured |-> configured, goalTargetAmountForDisplay |-> target,
   goalPeriodDisplayString |-> period, goalCurrentSum |-> currentSum,
   goalAmountRelevant |-> relevant, goalProgressPercentage |-> progress,
   goalAmountRemaining |-> remaining, goalIsMetOrOnTrack |-> met]

\* { goalIsActiveAndConfigured: false }
NotConfigured ==
  GoalData(FALSE, Undefined, Undefined, Undefined, Undefined, Undefined, Undefined, Undefined)

\* txDate >= goalDateRange.start && txDate <= goalDateRange.end
inPeriod(tx, range) == tx.posted >= range.start /\ tx.posted <= range.end

\* tx.amountNum || 0
amountOrZero(tx) == IF Truthy(tx.amountNum) THEN tx.amountNum.n ELSE 0

RECURSIVE sumInPeriod(_, _, _)
\* transactionsInPeriod.reduce((sum, tx) => sum + (tx.amountNum || 0), 0), over the
\* first k transactions
sumInPeriod(bucketTransactions, range, k) ==
  IF k = 0 THEN 0
  ELSE sumInPeriod(bucketTransactions, range, k - 1)
         + (IF inPeriod(bucketTransactions[k], range)
            THEN amountOrZero(bucketTransactions[k]) ELSE 0)

\* a defect: a net refund counts as spending
spendingLimitRelevant_abs(goalCurrentSum) ==
  IF goalCurrentSum < 0 THEN -goalCurrentSum ELSE goalCurrentSum

\* goalCurrentSum < 0 ? Math.abs(goalCurrentSum) : 0
spendingLimitRelevant(goalCurrentSum) ==
  IF goalCurrentSum < 0 THEN -goalCurrentSum ELSE 0

goalAmountRelevant(goalType, goalCurrentSum) ==
  IF goalType = "savings" THEN goalCurrentSum ELSE spendingLimitRelevant(goalCurrentSum)

\* a defect: the difference without the floor of 0
goalAmountRemaining_signed(targetAmount, relevant) == targetAmount - relevant

\* Math.max(0, targetAmount - goalAmountRelevant)
goalAmountRemaining(targetAmount, relevant) ==
  IF targetAmount - relevant > 0 THEN targetAmount - relevant ELSE 0

\* a defect: a goal met exactly does not count as met
goalIsMetOrOnTrack_strict(goalType, relevant, targetAmount) ==
  IF goalType = "savings" THEN relevant > targetAmount ELSE relevant < targetAmount

goalIsMetOrOnTrack(goalType, relevant, targetAmount) ==
  IF goalType = "savings" THEN relevant >= targetAmount ELSE relevant <= targetAmount

\* a defect: a target of 0 always shows no progress
goalProgressPercentage_zero(goalType, relevant, targetAmount) ==
  IF targetAmount > 0 THEN Percent(relevant, targetAmount) ELSE Percent(0, 1)

goalProgressPercentage(goalType, relevant, targetAmount) ==
  IF targetAmount > 0 THEN Percent(relevant, targetAmount)
  ELSE IF goalType = "savings" /\ relevant >= 0 THEN Percent(1, 1)
  ELSE IF goalType = "spending_limit" /\ relevant = 0 THEN Percent(1, 1)
  ELSE Percent(0, 1)

\* part_009 lines 328-354, with the relevant amount in hand
dataOfRelevant(goal, period, goalCurrentSum, relevant) ==
  GoalData(TRUE, goal.targetAmount, period, Num(goalCurrentSum), Num(relevant),
           goalProgressPercentage(goal.goalType, relevant, goal.targetAmount.n),
           Num(goalAmountRemaining(goal.targetAmount.n, relevant)),
           goalIsMetOrOnTrack(goal.goalType, relevant, goal.targetAmount.n))

\* part_009 lines 318-354, with the sum in hand
dataInPeriod(goal, period, goalCurrentSum) ==
  dataOfRelevant(goal, period, goalCurrentSum,
                 goalAmountRelevant(goal.goalType, goalCurrentSum))

\* a defect: a target of 0 counts as met though the period is invalid
dataWithoutRange_zeroTargetMet(goal, period) ==
  GoalData(TRUE, goal.targetAmount, period, Num(0), Num(0), Percent(0, 1),
           goal.targetAmount, goal.targetAmount = Num(0))

\* part_009 lines 309-316: if (!goalDateRange)
dataWithoutRange(goal, period) ==
  GoalData(TRUE, goal.targetAmount, period, Num(0), Num(0), Percent(0, 1),
           goal.targetAmount, FALSE)

dataOfRange(goal, range, bucketTransactions) ==
  IF range = Null THEN dataWithoutRange(goal, getGoalPeriodDisplayString(goal, range))
  ELSE dataInPeriod(goal, getGoalPeriodDisplayString(goal, range),
                    sumInPeriod(bucketTransactions, range, Len(bucketTransactions)))

\* DashboardComponent.calculateBucketGoalData of part_009
calculateBucketGoalData(bucket, bucketTransactions, now, z) ==
  IF IsNullish(bucket.goal) THEN NotConfigured
  ELSE IF ~bucket.goal.isActive \/ IsNullish(bucket.goal.targetAmount) THEN NotConfigured
  ELSE dataOfRange(bucket.goal, getActualGoalDateRange(bucket.goal, now, z),
                   bucketTransactions)

\* part_010 lines 248-258: the else branch of the goal block
dataElse_p10(goal, period) ==
  GoalData(TRUE, goal.targetAmount, period, Num(0), Num(0), Percent(0, 1),
           (IF Truthy(goal.targetAmount) THEN goal.targetAmount ELSE Num(0)),
           goal.targetAmount = Num(0) /\ goal.goalType \in {"spending_limit", "savings"})

dataOfRange_p10(goal, range, bucketTransactions) ==
  IF range # Null /\ ~IsNullish(goal.targetAmount)
  THEN dataInPeriod(goal, getGoalPeriodDisplayString(goal, range),
                    sumInPeriod(bucketTransactions, range, Len(bucketTransactions)))
  ELSE dataElse_p10(goal, getGoalPeriodDisplayString(goal, range))

\* the goal block of DashboardComponent.categorizeTransactions of part_010
goalData_p10(bucket, bucketTransactions, now, z) ==
  IF IsNullish(bucket.goal) THEN NotConfigured
  ELSE IF ~bucket.goal.isActive THEN NotConfigured
  ELSE dataOfRange_p10(bucket.goal, getActualGoalDateRange(bucket.goal, now, z),
                       bucketTransactions)

\* the goal data of buckets[1] for the transactions assigned to it
CalculateBucketGoalData ==
  /\ pc = "goal"
  /\ outcome' = [part_009 |-> calculateBucketGoalData(buckets[1], transactions, today, tz),
                 part_010 |-> goalData_p10(buckets[1], transactions, today, tz)]
  /\ pc' = "goalCalculated"
  /\ UNCHANGED <<pages, tz, today, engine, rules, buckets, transactions, idx, sortedBuckets,
                 result, inTx, inCond, inGroup>>

\* the period settings of a goal: the type, start, end and rolling days
GoalPeriods ==
  {<<pt, Undefined, Undefined, Num(3000)>> : pt \in {"current_month", "current_year", "all_time"}}
    \cup {<<"rolling_days", Undefined, Undefined, rd>> :
            rd \in {Undefined, Num(0), Num(-100), Num(100), Num(200)}}
    \cup {<<"fixed_date_range", sd, ed, Num(3000)>> :
            <<sd, ed>> \in {<<Undefined, Undefined>>, <<Jan02, Undefined>>,
                            <<Str(<<"a", "b", "c">>), Jan03>>, <<Jan02, Str(<<"a", "b", "c">>)>>,
                            <<Jan02, Jan03>>, <<Jan03, Jan02>>}}
    \cup {<<"weekly", Undefined, Undefined, Num(3000)>>}

TargetAmounts == {Null, Num(-1000), Num(0), Num(3000), Num(5000)}

Goals ==
  { Goal(a, ta, gt, p[1], p[2], p[3], p[4]) :
      a \in BOOLEAN, ta \in TargetAmounts, gt \in {"savings", "spending_limit"},
      p \in GoalPeriods }

GoalBucket(goal) ==
  [id |-> BucketId(1), name |-> BucketId(1), priority |-> 1, rules |-> <<>>, goal |-> goal]

\* transactions of the bucket: on 1970-01-02, twice on 1970-01-03, on 1969-12-30,
\* and one on 1970-01-03 whose amount is no number
GoalTxPool ==
  { Tx("g1", 30, 3000, Str(Amazon), Undefined, Undefined),
    Tx("g2", 50, -5000, Str(Amazon), Undefined, Undefined),
    Tx("g3", -30, -1000, Str(Amazon), Undefined, Undefined),
    Tx("g4", 60, 2000, Str(Amazon), Undefined, Undefined),
    [Tx("g5", 55, 0, Str(Amazon), Undefined, Undefined) EXCEPT !.amountNum = NaN] }

\* new Date(): 1970-01-03 12:00 and 1970-02-10 12:00 UTC
Nows == {60, 972}

InitGoal ==
  /\ tz \in TimeZones
  /\ NoPages
  /\ today \in Nows
  /\ engine = "service"
  /\ rules = <<>>
  /\ buckets \in {<<GoalBucket(g)>> : g \in Goals \cup {Undefined}}
  /\ transactions \in DistinctSeqsUpTo(GoalTxPool, MaxTx)
  /\ pc = "goal"
  /\ idx = 0
  /\ sortedBuckets = <<>>
  /\ result = NoResult
  /\ inTx = Null
  /\ inCond = Null
  /\ inGroup = Null
  /\ outcome = NoOutcome

NextGoal == CalculateBucketGoalData

SpecGoal == InitGoal /\ [][NextGoal]_vars

(***************************************************************************)
(* Claims about goal progress.                                             *)
(***************************************************************************)
TheGoal == buckets[1].goal

\* the bucket has an active goal with a target amount
ActiveGoalWithTarget ==
  /\ ~IsNullish(TheGoal)
  /\ TheGoal.isActive
  /\ ~IsNullish(TheGoal.targetAmount)

NoDateText(v) == v.t # "str" \/ v.s = <<>> \/ DayOfIsoDate(v.s) = -1000

\* the period of the goal is invalid: no positive rolling days, a start or end that
\* is missing or names no date, or a period type that does not exist
InvalidPeriod(goal) ==
  \/ goal.periodType = "rolling_days"
       /\ (goal.rollingDays.t # "num" \/ goal.rollingDays.n <= 0)
  \/ goal.periodType = "fixed_date_range"
       /\ (NoDateText(goal.startDate) \/ NoDateText(goal.endDate))
  \/ goal.periodType \notin {"current_month", "rolling_days", "fixed_date_range",
                             "current_year", "all_time"}

\* C16: for an active goal with a target amount and an invalid period,
\* calculateBucketGoalData reports a current sum of 0, a relevant amount of 0, a
\* progress of 0, the target as the remaining amount and the goal as not met,
\* whatever transactions the bucket holds.
C16_InvalidPeriodIsZeroAndNotMet ==
  (pc = "goalCalculated" /\ ActiveGoalWithTarget /\ InvalidPeriod(TheGoal)) =>
    /\ outcome.part_009.goalIsActiveAndConfigured
    /\ outcome.part_009.goalCurrentSum = Num(0)
    /\ outcome.part_009.goalAmountRelevant = Num(0)
    /\ outcome.part_009.goalProgressPercentage = Percent(0, 1)
    /\ outcome.part_009.goalAmountRemaining = TheGoal.targetAmount
    /\ outcome.part_009.goalIsMetOrOnTrack = FALSE

\* an invalid period, a target of 0 and two transactions in the bucket
C16_Witness ==
  /\ pc = "goalCalculated"
  /\ ActiveGoalWithTarget
  /\ InvalidPeriod(TheGoal)
  /\ TheGoal.periodType = "fixed_date_range"
  /\ TheGoal.targetAmount = Num(0)
  /\ Len(transactions) = 2
  /\ outcome.part_009.goalIsMetOrOnTrack = FALSE

\* the goal is configured and its period is valid
ConfiguredWithPeriod == ActiveGoalWithTarget /\ ~InvalidPeriod(TheGoal)

Max0(n) == IF n > 0 THEN n ELSE 0

\* what part_009 reports for a spending limit with a valid period
SpendingLimitReported ==
  /\ pc = "goalCalculated"
  /\ ConfiguredWithPeriod
  /\ TheGoal.goalType = "spending_limit"

C18_RemainingIsFlooredDifference ==
  (pc = "goalCalculated" /\ ConfiguredWithPeriod) =>
    /\ outcome.part_009.goalAmountRemaining
         = Num(Max0(TheGoal.targetAmount.n - outcome.part_009.goalAmountRelevant.n))
    /\ outcome.part_009.goalAmountRemaining.n >= 0

\* a savings goal of 30.00 whose period holds a net withdrawal of 50.00: the relevant
\* amount is negative and 80.00 remain
C18_Witness ==
  /\ pc = "goalCalculated"
  /\ ConfiguredWithPeriod
  /\ TheGoal.goalType = "savings"
  /\ TheGoal.targetAmount = Num(3000)
  /\ outcome.part_009.goalAmountRelevant = Num(-5000)
  /\ outcome.part_009.goalAmountRemaining = Num(8000)

\* savings beyond the target: nothing remains
C18_WitnessExceeded ==
  /\ pc = "goalCalculated"
  /\ ConfiguredWithPeriod
  /\ TheGoal.goalType = "savings"
  /\ TheGoal.targetAmount = Num(3000)
  /\ outcome.part_009.goalAmountRelevant = Num(5000)
  /\ outcome.part_009.goalAmountRemaining = Num(0)

\* C19: for every configured goal with a valid period isMetOrOnTrack is true
\* exactly when relevantAmount >= targetAmount for a savings goal and exactly when
\* relevantAmount <= targetAmount for a spending limit, in part_009 and in the goal
\* block of part_010.
C19_MetByTypeRule ==
  (pc = "goalCalculated" /\ ConfiguredWithPeriod) =>
    /\ outcome.part_009.goalIsMetOrOnTrack
         <=> IF TheGoal.goalType = "savings"
             THEN outcome.part_009.goalAmountRelevant.n >= TheGoal.targetAmount.n
             ELSE outcome.part_009.goalAmountRelevant.n <= TheGoal.targetAmount.n
    /\ outcome.part_010.goalIsMetOrOnTrack
         <=> IF TheGoal.goalType = "savings"
             THEN outcome.part_010.goalAmountRelevant.n >= TheGoal.targetAmount.n
             ELSE outcome.part_010.goalAmountRelevant.n <= TheGoal.targetAmount.n

\* a spending limit of 50.00 with exactly 50.00 spent in the period: met
C19_Witness ==
  /\ pc = "goalCalculated"
  /\ ConfiguredWithPeriod
  /\ TheGoal.goalType = "spending_limit"
  /\ TheGoal.targetAmount = Num(5000)
  /\ outcome.part_009.goalAmountRelevant = Num(5000)
  /\ outcome.part_009.goalIsMetOrOnTrack
  /\ outcome.part_010.goalIsMetOrOnTrack

\* the percentage q is the number n / d * 100
IsPercentageOf(q, n, d) == q.t = "percent" /\ q.d # 0 /\ q.n * d = n * q.d

\* C20: the progress percentage is relevantAmount / targetAmount * 100 when the
\* target is positive; when the target is 0 it is 100 if the goal is met under its
\* type's rule and 0 otherwise.
C20_ProgressPercentage ==
  (pc = "goalCalculated" /\ ConfiguredWithPeriod) =>
    /\ TheGoal.targetAmount.n > 0 =>
         IsPercentageOf(outcome.part_009.goalProgressPercentage,
                        outcome.part_009.goalAmountRelevant.n, TheGoal.targetAmount.n)
    /\ TheGoal.targetAmount.n = 0 =>
         outcome.part_009.goalProgressPercentage
           = (IF outcome.part_009.goalIsMetOrOnTrack THEN Percent(1, 1)
              ELSE Percent(0, 1))

\* a spending limit of 0 with nothing spent in the period: met, at 100
C20_Witness ==
  /\ pc = "goalCalculated"
  /\ ConfiguredWithPeriod
  /\ TheGoal.goalType = "spending_limit"
  /\ TheGoal.targetAmount = Num(0)
  /\ Len(transactions) > 0
  /\ outcome.part_009.goalAmountRelevant = Num(0)
  /\ outcome.part_009.goalIsMetOrOnTrack
  /\ outcome.part_009.goalProgressPercentage = Percent(1, 1)

\* a spending limit of 0 with 50.00 spent: not met, at 0
C20_WitnessZeroTargetMissed ==
  /\ pc = "goalCalculated"
  /\ ConfiguredWithPeriod
  /\ TheGoal.goalType = "spending_limit"
  /\ TheGoal.targetAmount = Num(0)
  /\ outcome.part_009.goalAmountRelevant = Num(5000)
  /\ ~outcome.part_009.goalIsMetOrOnTrack
  /\ outcome.part_009.goalProgressPercentage = Percent(0, 1)

\* a savings goal of 30.00 with 50.00 saved: 5000 / 3000 of 100 per cent
C20_WitnessPositiveTarget ==
  /\ pc = "goalCalculated"
  /\ ConfiguredWithPeriod
  /\ TheGoal.goalType = "savings"
  /\ TheGoal.targetAmount = Num(3000)
  /\ outcome.part_009.goalAmountRelevant = Num(5000)
  /\ outcome.part_009.goalProgressPercentage = Percent(5000, 3000)

(***************************************************************************)
(* Rolling windows, also in a zone with daylight saving time.              *)
(***************************************************************************)
\* the first hour, the noon hour and the last hour of local day d
HoursOfDay(d, z) == {LocalMidnight(d, z), LocalMidnight(d, z) + 12, LocalMidnight(d + 1, z) - 1}

\* the instants of transactions around now: on the three days before today, today
\* and tomorrow
RollingInstants(now, z) == UNION {HoursOfDay(LocalDay(now, z) + d, z) : d \in -3..1}

\* 2 to the power k
RECURSIVE Pow2(_)
Pow2(k) == IF k = 0 THEN 1 ELSE 2 * Pow2(k - 1)

\* one transaction for each instant, each of another power of two, so that a sum
\* tells which transactions are in it
RollingTxPool(now, z) ==
  { Tx(<<"r", h>>, h, Pow2(Cardinality({g \in RollingInstants(now, z) : g < h})),
       Str(Amazon), Undefined, Undefined) : h \in RollingInstants(now, z) }

RollingGoals ==
  { Goal(TRUE, Num(3000), gt, "rolling_days", Undefined, Undefined, Num(100 * n)) :
      gt \in {"savings", "spending_limit"}, n \in 1..3 }

\* new Date(): 1970-01-03 12:00 UTC; 1970-04-27 04:00 UTC, the midnight after the
\* short day in New York; 1970-10-26 04:00 UTC, 23:00 of the long day in New York;
\* 1970-07-15 19:00 UTC
RollingNows == {60, 2788, 7156, 4699}

InitRolling ==
  /\ tz \in TimeZones \cup DstZones
  /\ NoPages
  /\ today \in RollingNows
  /\ engine = "service"
  /\ rules = <<>>
  /\ buckets \in {<<GoalBucket(g)>> : g \in RollingGoals}
  /\ transactions \in DistinctSeqsUpTo(RollingTxPool(today, tz), MaxTx)
  /\ pc = "goal"
  /\ idx = 0
  /\ sortedBuckets = <<>>
  /\ result = NoResult
  /\ inTx = Null
  /\ inCond = Null
  /\ inGroup = Null
  /\ outcome = NoOutcome

NextRolling == CalculateBucketGoalData

SpecRolling == InitRolling /\ [][NextRolling]_vars

\* tx is posted on one of the n local calendar days that end today
InLastDays(tx, n) ==
  /\ LocalDay(tx.posted, tz) <= LocalDay(today, tz)
  /\ LocalDay(tx.posted, tz) >= LocalDay(today, tz) - (n - 1)

RECURSIVE SumOfLastDays(_, _)
SumOfLastDays(k, n) ==
  IF k = 0 THEN 0
  ELSE SumOfLastDays(k - 1, n)
         + (IF InLastDays(transactions[k], n) THEN transactions[k].amountNum.n ELSE 0)

\* C21 as the specification states it: for a goal over n >= 1 rolling days the
\* transactions summed are exactly those posted on one of the n local calendar
\* days ending today.
C21_RollingWindowIsLastDays ==
  (pc = "goalCalculated" /\ TheGoal.periodType = "rolling_days") =>
    outcome.part_009.goalCurrentSum
      = Num(SumOfLastDays(Len(transactions), TheGoal.rollingDays.n \div 100))

(***************************************************************************)
(* DashboardComponent.categorizeTransactions of part_009: the buckets for  *)
(* display, each with its transactions, its total and its goal data.  The  *)
(* list under construction is kept in outcome.                             *)
(***************************************************************************)
\* the transactions that the entries of a result list carry
txsOf(list) == [k \in 1..Len(list) |-> list[k].tx]

\* a defect: the uncategorized transactions count for every bucket
transactionsOfBucket_withUncategorized(res, bucket) ==
  txsOf(res.categorized[bucket.id] \o res.uncategorized)

\* categorized.get(bucket.id) || []
transactionsOfBucket(res, bucket) == txsOf(res.categorized[bucket.id])

RECURSIVE totalAmount(_, _)
\* list.reduce((sum, t) => sum + (t.amountNum || 0), 0), over the first k
totalAmount(txs, k) ==
  IF k = 0 THEN 0 ELSE totalAmount(txs, k - 1) + amountOrZero(txs[k])

\* the entry pushed for a configured bucket (lines 397-410)
bucketWithTransactions(bucket, bucketTransactions, now, z) ==
  [id |-> bucket.id, priority |-> bucket.priority, transactions |-> bucketTransactions,
   totalAmount |-> totalAmount(bucketTransactions, Len(bucketTransactions)),
   goalData |-> calculateBucketGoalData(bucket, bucketTransactions, now, z)]

\* the entry of the uncategorized transactions (lines 381-387 and 415-421)
uncategorizedBucket(txs) ==
  [id |-> "uncategorized", priority |-> 9999, transactions |-> txs,
   totalAmount |-> totalAmount(txs, Len(txs)), goalData |-> NotConfigured]

\* lines 364-392: the edge cases, or the call of applyRulesToTransactions
CategorizeStart ==
  /\ pc = "categorize"
  /\ IF Len(buckets) = 0
     THEN /\ outcome' = (IF Len(transactions) = 0 THEN <<>>
                         ELSE <<uncategorizedBucket(transactions)>>)
          /\ pc' = "categorized"
     ELSE /\ outcome' = <<>>
          /\ pc' = "called"
  /\ UNCHANGED <<pages, tz, today, engine, rules, buckets, transactions, idx, sortedBuckets,
                 result, inTx, inCond, inGroup>>

\* lines 396-411: one round of the loop over the sorted buckets
CategorizeBucket ==
  /\ pc = "returned"
  /\ Len(outcome) < Len(buckets)
  /\ outcome' = Append(outcome,
                       bucketWithTransactions(
                         SortByPriority(buckets)[Len(outcome) + 1],
                         transactionsOfBucket(result, SortByPriority(buckets)[Len(outcome) + 1]),
                         today, tz))
  /\ UNCHANGED <<pages, tz, today, engine, rules, buckets, transactions, pc, idx, sortedBuckets,
                 result, inTx, inCond, inGroup>>

\* lines 414-423: the uncategorized entry, and the assignment to categorizedBuckets
CategorizeFinish ==
  /\ pc = "returned"
  /\ Len(outcome) = Len(buckets)
  /\ outcome' = (IF Len(result.uncategorized) > 0
                 THEN Append(outcome, uncategorizedBucket(txsOf(result.uncategorized)))
                 ELSE outcome)
  /\ pc' = "categorized"
  /\ UNCHANGED <<pages, tz, today, engine, rules, buckets, transactions, idx, sortedBuckets,
                 result, inTx, inCond, inGroup>>

\* goals over all time: every transaction of TxPool is in their period
AllTimeGoals ==
  { Goal(TRUE, Num(3000), gt, "all_time", Undefined, Undefined, Undefined) :
      gt \in {"savings", "spending_limit"} }

GoalLinkings ==
  { <<Link("rAmazon", TRUE)>>, <<Link("rHasA", TRUE)>>, <<Link("rTen20", TRUE)>> }

\* buckets with goals, sorted by priority
GoalBucketLists ==
  { [k \in 1..Len(ps) |-> [id |-> BucketId(k), name |-> BucketId(k), priority |-> ps[k],
                           rules |-> ls[k], goal |-> gs[k]]] :
      <<ps, ls, gs>> \in UNION { {q \in SeqsOfLen(Priorities, n) :
                                    \A i \in 1..(n - 1) : q[i] <= q[i + 1]}
                                 \X SeqsOfLen(GoalLinkings, n)
                                 \X SeqsOfLen(AllTimeGoals, n) : n \in 0..MaxBuckets } }

InitCategorize ==
  /\ tz = 0
  /\ NoPages
  /\ today = 60
  /\ engine \in Engines
  /\ rules = RuleStore
  /\ buckets \in GoalBucketLists
  /\ transactions \in DistinctSeqsUpTo(TxPool, MaxTx)
  /\ pc = "categorize"
  /\ idx = 0
  /\ sortedBuckets = <<>>
  /\ result = NoResult
  /\ inTx = Null
  /\ inCond = Null
  /\ inGroup = Null
  /\ outcome = <<>>

NextCategorize ==
  \/ CategorizeStart
  \/ ApplyRulesStart
  \/ ApplyRulesTx
  \/ ApplyRulesReturn
  \/ CategorizeBucket
  \/ CategorizeFinish

SpecCategorize == InitCategorize /\ [][NextCategorize]_vars

\* the bucket at place k of the sorted buckets is the first whose rules match tx
OwnsTransaction(k, tx) ==
  /\ Eligible(tx, SortByPriority(buckets)[k])
  /\ \A j \in 1..(k - 1) : ~Eligible(tx, SortByPriority(buckets)[j])

RECURSIVE SumOwned(_, _)
\* the sum of the amounts of the first i transactions that the bucket at place k owns
SumOwned(k, i) ==
  IF i = 0 THEN 0
  ELSE SumOwned(k, i - 1)
         + (IF OwnsTransaction(k, transactions[i]) THEN transactions[i].amountNum.n ELSE 0)

\* C22: the goal sum of every bucket shown is the sum of the transactions classified
\* into that bucket in this refresh: a transaction that matches rules of two buckets
\* counts for the first of them in priority order only, an uncategorized transaction
\* for no goal, and the uncategorized entry carries no goal.
C22_GoalSumOfOwnTransactionsOnly ==
  (pc = "categorized" /\ Len(buckets) > 0) =>
    /\ \A k \in 1..Len(buckets) :
         /\ outcome[k].id = SortByPriority(buckets)[k].id
         /\ outcome[k].goalData.goalIsActiveAndConfigured
         /\ outcome[k].goalData.goalCurrentSum = Num(SumOwned(k, Len(transactions)))
    /\ \A k \in (Len(buckets) + 1)..Len(outcome) :
         /\ outcome[k].id = "uncategorized"
         /\ ~outcome[k].goalData.goalIsActiveAndConfigured

\* two buckets whose rules both match the Amazon transaction, and one transaction
\* that stays uncategorized: the first bucket's goal counts the Amazon transaction,
\* the second bucket's goal counts nothing
C22_Witness ==
  /\ pc = "categorized"
  /\ Len(buckets) = 2
  /\ Len(transactions) = 2
  /\ \E i \in 1..2 :
       /\ Eligible(transactions[i], SortByPriority(buckets)[1])
       /\ Eligible(transactions[i], SortByPriority(buckets)[2])
       /\ outcome[1].goalData.goalCurrentSum = transactions[i].amountNum
  /\ outcome[2].goalData.goalCurrentSum = Num(0)
  /\ Len(outcome) = 3
  /\ Len(outcome[3].transactions) = 1

\* ---------------------------------------------------------------------------
\* The order of evaluation inside evaluateFilterGroup
\* ---------------------------------------------------------------------------

\* An evaluation is observed as the sequence of the calls it makes: a call of
\* evaluateFilterGroup on the group at a path (the indices of the sub-groups
\* from the root), and a call of evaluateCondition on the i-th condition of the
\* group at a path, with the value it returned.
GroupCall(path) == [kind |-> "group", path |-> path, index |-> 0, value |-> FALSE]
ConditionCall(path, i, v) == [kind |-> "condition", path |-> path, index |-> i, value |-> v]

\* a result of an evaluation together with the calls made so far
Traced(res, trace) == [res |-> res, trace |-> trace]

\* evaluateCondition of one of the two engines
conditionOf(e, transaction, condition, z) ==
  IF e = "service" THEN evaluateCondition(transaction, condition, z)
  ELSE evaluateCondition_p3(transaction, condition, z)

RECURSIVE conditionsFrom(_, _, _, _, _, _, _)
\* one callback of group.conditions.every / group.conditions.some: the array
\* method stops at the first false (every) or the first true (some)
conditionCallback(e, transaction, group, z, path, i, calls, v) ==
  IF (group.operator = "AND" /\ ~v) \/ (group.operator # "AND" /\ v)
  THEN Traced(v, Append(calls, ConditionCall(path, i, v)))
  ELSE conditionsFrom(e, transaction, group, z, path, i + 1,
                      Append(calls, ConditionCall(path, i, v)))

\* group.conditions.every(...) / group.conditions.some(...) from the i-th
\* condition on; with no conditions, the group's being an AND group
conditionsFrom(e, transaction, group, z, path, i, calls) ==
  IF i > Len(group.conditions) THEN Traced(group.operator = "AND", calls)
  ELSE conditionCallback(e, transaction, group, z, path, i, calls,
                         conditionOf(e, transaction, group.conditions[i], z))

\* a defect: the sub-groups are evaluated whatever the conditions gave
subGroupsSkipped_never(e, operator, conditionsRes, noSubGroups) ==
  noSubGroups

\* whether evaluateFilterGroup returns without evaluating a sub-group, once
\* the conditions are evaluated
subGroupsSkipped(e, operator, conditionsRes, noSubGroups) ==
  IF e = "service"
  THEN IF noSubGroups THEN TRUE
       ELSE IF operator = "AND" THEN ~conditionsRes
       ELSE conditionsRes
  ELSE IF operator = "AND" /\ ~conditionsRes THEN TRUE
       ELSE IF operator # "AND" /\ conditionsRes THEN TRUE
       ELSE noSubGroups

RECURSIVE tracedGroup(_, _, _, _, _, _)
RECURSIVE subGroupsFrom(_, _, _, _, _, _, _)
\* one callback of group.subGroups.every / group.subGroups.some
subGroupCallback(e, transaction, group, z, path, j, r) ==
  IF (group.operator = "AND" /\ ~r.res) \/ (group.operator # "AND" /\ r.res)
  THEN r
  ELSE subGroupsFrom(e, transaction, group, z, path, j + 1, r.trace)

\* group.subGroups.every(...) / group.subGroups.some(...) from the j-th
\* sub-group on
subGroupsFrom(e, transaction, group, z, path, j, calls) ==
  IF j > Len(group.subGroups) THEN Traced(group.operator = "AND", calls)
  ELSE subGroupCallback(e, transaction, group, z, path, j,
                        tracedGroup(e, transaction, group.subGroups[j], z,
                                    Append(path, j), calls))

\* the rest of evaluateFilterGroup once the conditions are evaluated
afterConditions(e, transaction, group, z, path, r) ==
  IF subGroupsSkipped(e, group.operator, r.res, Len(group.subGroups) = 0)
  THEN r
  ELSE subGroupsFrom(e, transaction, group, z, path, 1, r.trace)

\* evaluateFilterGroup of engine e on the group at path, with the calls it makes
tracedGroup(e, transaction, group, z, path, calls) ==
  IF IsNullish(group) THEN Traced(FALSE, Append(calls, GroupCall(path)))
  ELSE afterConditions(e, transaction, group, z, path,
                       conditionsFrom(e, transaction, group, z, path, 1,
                                      Append(calls, GroupCall(path))))

\* evaluateFilterGroup is called on inGroup with inTx, by both engines
TraceGroup ==
  /\ pc = "traceGroup"
  /\ outcome' = [service |-> tracedGroup("service", inTx, inGroup, tz, <<>>, <<>>),
                 part_003 |-> tracedGroup("part_003", inTx, inGroup, tz, <<>>, <<>>)]
  /\ pc' = "groupTraced"
  /\ UNCHANGED <<pages, tz, today, engine, rules, buckets, transactions, idx, sortedBuckets,
                 result, inTx, inCond, inGroup>>

InitTrace ==
  /\ tz = 0
  /\ NoPages
  /\ today = 0
  /\ engine = "service"
  /\ rules = <<>>
  /\ buckets = <<>>
  /\ transactions = <<>>
  /\ pc = "traceGroup"
  /\ idx = 0
  /\ sortedBuckets = <<>>
  /\ result = NoResult
  /\ inTx \in GroupTxPool
  /\ inCond = Null
  /\ inGroup \in Groups
  /\ outcome = NoOutcome

NextTrace == TraceGroup

SpecTrace == InitTrace /\ [][NextTrace]_vars

RECURSIVE GroupAt(_, _)
\* the group at a path below a group
GroupAt(group, path) ==
  IF path = <<>> THEN group ELSE GroupAt(group.subGroups[Head(path)], Tail(path))

\* path q lies strictly below path p
StrictlyBelow(q, p) == Len(q) > Len(p) /\ SubSeq(q, 1, Len(p)) = p

\* a direct condition of an AND group has failed, or one of an OR group has succeeded
Deciding(call) ==
  /\ call.kind = "condition"
  /\ call.value = (GroupAt(inGroup, call.path).operator # "AND")

\* In the calls of one evaluation: nothing below a group is evaluated when one
\* of its direct conditions decided it, and every direct condition of a group
\* is evaluated before anything below the group.
ShortCircuits(calls) ==
  \A a \in 1..Len(calls) : \A b \in 1..Len(calls) :
    (calls[a].kind = "condition" /\ StrictlyBelow(calls[b].path, calls[a].path)) =>
      (~Deciding(calls[a]) /\ a < b)

\* C23: evaluation of a filter group short-circuits: once a direct condition of
\* an AND group has failed, or one of an OR group has succeeded, no sub-group of
\* that group is evaluated, and direct conditions are evaluated before sub-groups
\* (both engines; each engine returns what its evaluateFilterGroup returns).
C23_GroupEvaluationShortCircuits ==
  pc = "groupTraced" =>
    /\ ShortCircuits(outcome.service.trace)
    /\ ShortCircuits(outcome.part_003.trace)
    /\ outcome.service.res = evaluateFilterGroup(inTx, inGroup, tz)
    /\ outcome.part_003.res = evaluateFilterGroup_p3(inTx, inGroup, tz)

\* an AND group with sub-groups whose direct condition failed, and an evaluation
\* that stopped there
C23_Witness ==
  /\ pc = "groupTraced"
  /\ inGroup.operator = "AND"
  /\ Len(inGroup.subGroups) > 0
  /\ \E a \in 1..Len(outcome.service.trace) :
       /\ outcome.service.trace[a].path = <<>>
       /\ Deciding(outcome.service.trace[a])
  /\ outcome.service.trace[Len(outcome.service.trace)].kind = "condition"
  /\ outcome.part_003.trace = outcome.service.trace

\* an OR group whose direct conditions all failed, so that its sub-groups are evaluated
C23_WitnessSubGroupsEvaluated ==
  /\ pc = "groupTraced"
  /\ inGroup.operator = "OR"
  /\ Len(inGroup.conditions) > 0
  /\ \E b \in 1..Len(outcome.part_003.trace) : outcome.part_003.trace[b].kind = "group"
                                                /\ outcome.part_003.trace[b].path # <<>>

\* ---------------------------------------------------------------------------
\* Absent transaction values
\* ---------------------------------------------------------------------------

StringFields == {"payeeName", "descriptionText", "orgName", "accountName"}

CaseInsensitiveOperators ==
  {"exactMatch", "contains", "doesNotContain", "startsWith", "endsWith"}

UpperChar(c) ==
  IF \E i \in 1..Len(LowerCase) : LowerCase[i] = c
  THEN UpperCase[CHOOSE i \in 1..Len(LowerCase) : LowerCase[i] = c]
  ELSE c

\* String.prototype.toUpperCase
toUpperCase(s) == [i \in 1..Len(s) |-> UpperChar(s[i])]

\* a value with the letter case of its text changed: all lower, all upper
CaseVariants(v) ==
  IF v.t = "str" THEN {Str(toLowerCase(v.s)), Str(toUpperCase(v.s))} ELSE {v}

\* inCond with another operator
WithOperator(op) == [inCond EXCEPT !.operator = op]

\* contains and doesNotContain on the same field and value: exactly one is true
ExactlyOneOfContains ==
  /\ evaluateCondition(inTx, WithOperator("contains"), tz)
       # evaluateCondition(inTx, WithOperator("doesNotContain"), tz)
  /\ evaluateCondition_p3(inTx, WithOperator("contains"), tz)
       # evaluateCondition_p3(inTx, WithOperator("doesNotContain"), tz)

\* the result of inCond on inTx is the result on every change of letter case of
\* the transaction's value and of the comparison value
CaseInsensitive ==
  \A v \in CaseVariants(getTransactionValue(inTx, inCond.field, tz)) :
    \A f \in CaseVariants(inCond.value) :
      /\ evaluateValue(v, [inCond EXCEPT !.value = f], tz) = outcome.service
      /\ evaluateValue_p3(v, [inCond EXCEPT !.value = f], tz) = outcome.part_003

\* C25 as the specification states it: for every transaction, string field and
\* comparison value exactly one of contains and doesNotContain is true, and the
\* results of exactMatch, contains, doesNotContain, startsWith and endsWith do
\* not depend on the letter case of either value (both engines).
C25_DoesNotContainNegatesContains ==
  (/\ pc = "conditionEvaluated"
   /\ inCond.field \in StringFields
   /\ inCond.operator \in CaseInsensitiveOperators) =>
    /\ CaseInsensitive
    /\ inCond.operator \in {"contains", "doesNotContain"} => ExactlyOneOfContains

(***************************************************************************)
(* The configuration page: BudgetConfigService and SetupConfigComponent.   *)
(* Buckets are objects: the service's array, the component's array,        *)
(* editingBucket and selectedBucketForRules hold references to them, and   *)
(* deleteRule assigns to the rules field of the objects in the service's   *)
(* array.  Arrays of associations are never changed in place.              *)
(***************************************************************************)
\* how many ids crypto.randomUUID() hands out to buckets and to rules in a run
MaxBucketIds == 2
MaxRuleIds == 1
\* how many Bucket objects can be alive at once
MaxObjects == 8

Refs == 1..MaxObjects
\* no object: null
NullRef == 0

\* a Bucket object; goal is undefined or a goal
BucketObject(id, name, priority, rs, goal) ==
  [t |-> "bucket", id |-> id, name |-> name, priority |-> priority, rules |-> rs,
   goal |-> goal]

\* { ruleId, isActive }
BucketRule(ruleId, isActive) == [ruleId |-> ruleId, isActive |-> isActive]

\* the heap, the service and the component while a handler runs
World(h, s, c) == [heap |-> h, service |-> s, component |-> c]

\* the reference a new object gets
FreeRef(h) == CHOOSE r \in Refs : h[r] = Null /\ \A q \in 1..(r - 1) : h[q] # Null

\* a new object on the heap
Allocate(w, obj) == [w EXCEPT !.heap[FreeRef(w.heap)] = obj]

\* this.buckets.sort((a, b) => a.priority - b.priority), on references
sortRefs(h, refs) ==
  [i \in 1..Len(refs) |->
     SortByPriority([k \in 1..Len(refs) |->
                       [ref |-> refs[k], priority |-> h[refs[k]].priority]])[i].ref]

\* JSON.stringify(this.buckets): the values of the objects
stringifyBuckets(h, refs) == [i \in 1..Len(refs) |-> h[refs[i]]]

\* BudgetConfigService.saveBuckets with the array refs
saveBuckets(w, refs) ==
  CHOOSE saved \in {[v EXCEPT !.service.buckets = sorted,
                              !.service.storedBuckets = stringifyBuckets(v.heap, sorted)] :
                      v \in {w}, sorted \in {sortRefs(w.heap, refs)}} : TRUE

\* BudgetConfigService.addBucket; the new object has reference ref
service_addBucket(w, ref, name, priority) ==
  saveBuckets([w EXCEPT !.heap[ref] =
                          BucketObject(w.service.bucketIds + 1, name, priority, <<>>, Undefined),
                        !.service.bucketIds = @ + 1],
              Append(w.service.buckets, ref))

\* this.buckets.findIndex(b => b.id === id), 0 when there is none
findIndex(h, refs, id) ==
  IF \E i \in 1..Len(refs) : h[refs[i]].id = id
  THEN CHOOSE i \in 1..Len(refs) :
         h[refs[i]].id = id /\ \A k \in 1..(i - 1) : h[refs[k]].id # id
  ELSE 0

\* BudgetConfigService.updateBucket(updatedBucket), updatedBucket the object at ref
service_updateBucket(w, ref, index) ==
  IF index > 0 THEN saveBuckets(w, [w.service.buckets EXCEPT ![index] = ref]) ELSE w

\* BudgetConfigService.deleteBucket
service_deleteBucket(w, bucketId) ==
  saveBuckets(w, SelectSeq(w.service.buckets, LAMBDA r : w.heap[r].id # bucketId))

\* BudgetConfigService.addRule
service_addRule(w) ==
  [w EXCEPT !.service.rules = Append(@, w.service.ruleIds + 1),
            !.service.ruleIds = @ + 1,
            !.service.storedRules = Append(w.service.rules, w.service.ruleIds + 1)]

\* bucket.rules.filter(br => br.ruleId !== ruleId)
rulesWithout(bucketRules, ruleId) == SelectSeq(bucketRules, LAMBDA br : br.ruleId # ruleId)

\* BudgetConfigService.deleteRule: the rules field of every object in the
\* service's array is assigned
service_deleteRule(w, ruleId) ==
  saveBuckets(
    [w EXCEPT !.service.rules = SelectSeq(@, LAMBDA r : r # ruleId),
              !.service.storedRules = SelectSeq(w.service.rules, LAMBDA r : r # ruleId),
              !.heap = [r \in Refs |->
                          IF \E i \in 1..Len(w.service.buckets) : w.service.buckets[i] = r
                          THEN [w.heap[r] EXCEPT !.rules = rulesWithout(@, ruleId)]
                          ELSE w.heap[r]]],
    w.service.buckets)

\* SetupConfigComponent.loadBuckets: this.buckets = [...service.buckets]
loadBuckets(w) == [w EXCEPT !.component.buckets = w.service.buckets]

\* SetupConfigComponent.loadRules
loadRules(w) == [w EXCEPT !.component.rules = w.service.rules]

\* SetupConfigComponent.resetBucketFormFields
resetBucketFormFields(w) == [w EXCEPT !.component.editingBucket = NullRef]

\* the references the service and the component hold, in a fixed order
Roots(w) ==
  w.service.buckets \o w.component.buckets
    \o <<w.component.editingBucket, w.component.selectedBucketForRules>>

RECURSIVE LiveOf(_, _)
\* the objects something still refers to, each once, in the order of Roots
LiveOf(roots, seen) ==
  IF roots = <<>> THEN seen
  ELSE IF Head(roots) = NullRef \/ \E i \in 1..Len(seen) : seen[i] = Head(roots)
  THEN LiveOf(Tail(roots), seen)
  ELSE LiveOf(Tail(roots), Append(seen, Head(roots)))

\* References are names without meaning: a live object is renamed to its place
\* among the live objects, so that two heaps that differ in names only are one
\* state.
Rank(live, r) ==
  IF r = NullRef THEN NullRef ELSE CHOOSE n \in 1..Len(live) : live[n] = r

Renamed(live, refs) == [i \in 1..Len(refs) |-> Rank(live, refs[i])]

\* the state a handler leaves: objects nothing refers to are gone
LeavesLive(w, live) ==
  /\ heap' = [n \in Refs |-> IF n <= Len(live) THEN w.heap[live[n]] ELSE Null]
  /\ configService' = [w.service EXCEPT !.buckets = Renamed(live, @)]
  /\ setupComponent' =
       [w.component EXCEPT !.buckets = Renamed(live, @),
                           !.editingBucket = Rank(live, @),
                           !.selectedBucketForRules = Rank(live, @)]
  /\ UNCHANGED <<tz, today, engine, rules, buckets, transactions, pc, idx, sortedBuckets,
                 result, inTx, inCond, inGroup, outcome, invocations, categorizedBuckets>>

\* (the handler's effect is computed once, then its references are renamed)
Leaves(w) == \E v \in {w} : \E live \in {LiveOf(Roots(v), <<>>)} : LeavesLive(v, live)

Now == World(heap, configService, setupComponent)

\* what is typed into the bucket form: name, priority and goal section; a
\* goal that is not active is stored as undefined
FormGoal == Goal(TRUE, Num(3000), "spending_limit", "all_time", Undefined, Undefined, Undefined)
Form(name, priority, goal) == [name |-> name, priority |-> priority, goal |-> goal]
Forms == {Form("Food", 10, Undefined), Form("Rent", 20, FormGoal)}

\* addBucket of the component once the service has added the bucket at ref:
\* with an active goal a copy with the goal replaces it
addBucketGoal(w, ref, goal) ==
  IF goal = Undefined THEN w
  ELSE service_updateBucket(Allocate(w, [w.heap[ref] EXCEPT !.goal = goal]),
                            FreeRef(w.heap),
                            findIndex(w.heap, w.service.buckets, w.heap[ref].id))

\* SetupConfigComponent.addBucket
AddBucket(name, priority, goal) ==
  /\ pc = "setup"
  /\ configService.bucketIds < MaxBucketIds
  /\ \E tempBucket \in {FreeRef(heap)} :
     \E added \in {service_addBucket(Now, tempBucket, name, priority)} :
     \E updated \in {addBucketGoal(added, tempBucket, goal)} :
       Leaves(resetBucketFormFields(loadBuckets(updated)))

\* SetupConfigComponent.deleteBucket, confirmed
clearAfterDelete(w, bucketId) ==
  [w EXCEPT !.component.editingBucket =
              IF @ # NullRef /\ w.heap[@].id = bucketId THEN NullRef ELSE @,
            !.component.selectedBucketForRules =
              IF @ # NullRef /\ w.heap[@].id = bucketId THEN NullRef ELSE @]

DeleteBucket(i) ==
  /\ pc = "setup"
  /\ i \in 1..Len(setupComponent.buckets)
  /\ \E bucketId \in {heap[setupComponent.buckets[i]].id} :
     \E deleted \in {service_deleteBucket(Now, bucketId)} :
       Leaves(clearAfterDelete(loadBuckets(deleted), bucketId))

\* SetupConfigComponent.startEditBucket(bucket), bucket the i-th of the list shown
StartEditBucket(i) ==
  /\ pc = "setup"
  /\ i \in 1..Len(setupComponent.buckets)
  /\ Leaves([Now EXCEPT !.component.editingBucket = setupComponent.buckets[i]])

\* updatedBucketData of saveEditBucket: { ...this.editingBucket, name, priority, goal }
editedBucket(w, name, priority, goal) ==
  [w.heap[w.component.editingBucket] EXCEPT
     !.name = name, !.priority = priority, !.goal = goal]

\* SetupConfigComponent.saveEditBucket
SaveEditBucket(name, priority, goal) ==
  /\ pc = "setup"
  /\ setupComponent.editingBucket # NullRef
  /\ \E updatedBucketData \in {FreeRef(heap)} :
     \E created \in {Allocate(Now, editedBucket(Now, name, priority, goal))} :
     \E index \in {findIndex(heap, configService.buckets,
                              heap[setupComponent.editingBucket].id)} :
     \E updated \in {service_updateBucket(created, updatedBucketData, index)} :
       Leaves(resetBucketFormFields(loadBuckets(updated)))

\* SetupConfigComponent.cancelEditBucket
CancelEditBucket ==
  /\ pc = "setup"
  /\ setupComponent.editingBucket # NullRef
  /\ Leaves(resetBucketFormFields(Now))

\* SetupConfigComponent.addRule
AddRule ==
  /\ pc = "setup"
  /\ configService.ruleIds < MaxRuleIds
  /\ \E added \in {service_addRule(Now)} : Leaves(loadRules(added))

\* SetupConfigComponent.deleteRule, confirmed
DeleteRule(ruleId) ==
  /\ pc = "setup"
  /\ \E i \in 1..Len(setupComponent.rules) : setupComponent.rules[i] = ruleId
  /\ \E deleted \in {service_deleteRule(Now, ruleId)} :
       Leaves(loadBuckets(loadRules(deleted)))

\* SetupConfigComponent.openBucketRuleConfig(bucket)
OpenBucketRuleConfig(i) ==
  /\ pc = "setup"
  /\ i \in 1..Len(setupComponent.buckets)
  /\ Leaves([Now EXCEPT !.component.selectedBucketForRules = setupComponent.buckets[i]])

\* SetupConfigComponent.closeBucketRuleConfig
CloseBucketRuleConfig ==
  /\ pc = "setup"
  /\ setupComponent.selectedBucketForRules # NullRef
  /\ Leaves([Now EXCEPT !.component.selectedBucketForRules = NullRef])

\* SetupConfigComponent.isRuleInBucket
isRuleInBucket(bucketRules, ruleId) ==
  \E k \in 1..Len(bucketRules) : bucketRules[k].ruleId = ruleId

\* SetupConfigComponent.isRuleActiveInBucket
isRuleActiveInBucket(bucketRules, ruleId) ==
  \E k \in 1..Len(bucketRules) : bucketRules[k].ruleId = ruleId /\ bucketRules[k].isActive

\* newRulesArray of toggleRuleForBucket: the box was checked to add the rule,
\* unchecked to remove it
toggledRules(bucketRules, ruleId, isChecked) ==
  IF isChecked /\ ~isRuleInBucket(bucketRules, ruleId)
  THEN Append(bucketRules, BucketRule(ruleId, TRUE))
  ELSE IF ~isChecked /\ isRuleInBucket(bucketRules, ruleId)
  THEN SelectSeq(bucketRules, LAMBDA br : br.ruleId # ruleId)
  ELSE bucketRules

\* the rest of a toggle handler once updatedBucket is the object at ref
keepSelection(w, ref) == [w EXCEPT !.component.selectedBucketForRules = ref]

\* SetupConfigComponent.toggleRuleForBucket; the box shows isRuleInBucket and
\* the change event carries the opposite
ToggleRuleForBucket(ruleId) ==
  /\ pc = "setup"
  /\ setupComponent.selectedBucketForRules # NullRef
  /\ \E i \in 1..Len(setupComponent.rules) : setupComponent.rules[i] = ruleId
  /\ \E updatedBucket \in {FreeRef(heap)} :
     \E created \in {Allocate(Now, [heap[setupComponent.selectedBucketForRules] EXCEPT
                                      !.rules = toggledRules(@, ruleId,
                                                             ~isRuleInBucket(@, ruleId))])} :
     \E index \in {findIndex(heap, configService.buckets,
                              heap[setupComponent.selectedBucketForRules].id)} :
     \E updated \in {service_updateBucket(created, updatedBucket, index)} :
       Leaves(loadBuckets(keepSelection(updated, updatedBucket)))

\* newRulesArray of toggleRuleActiveState
activeStateSet(bucketRules, ruleId, isActive) ==
  [k \in 1..Len(bucketRules) |->
     IF bucketRules[k].ruleId = ruleId THEN [bucketRules[k] EXCEPT !.isActive = isActive]
     ELSE bucketRules[k]]

\* SetupConfigComponent.toggleRuleActiveState; the box is shown for a rule in
\* the bucket; the component's list of buckets is not reloaded
ToggleRuleActiveState(ruleId) ==
  /\ pc = "setup"
  /\ setupComponent.selectedBucketForRules # NullRef
  /\ \E i \in 1..Len(setupComponent.rules) : setupComponent.rules[i] = ruleId
  /\ isRuleInBucket(heap[setupComponent.selectedBucketForRules].rules, ruleId)
  /\ \E updatedBucket \in {FreeRef(heap)} :
     \E created \in {Allocate(Now, [heap[setupComponent.selectedBucketForRules] EXCEPT
                                      !.rules = activeStateSet(@, ruleId,
                                                  ~isRuleActiveInBucket(@, ruleId))])} :
     \E index \in {findIndex(heap, configService.buckets,
                              heap[setupComponent.selectedBucketForRules].id)} :
     \E updated \in {service_updateBucket(created, updatedBucket, index)} :
       Leaves(keepSelection(updated, updatedBucket))

\* empty localStorage: the service and the component start without buckets and rules
InitConfig ==
  /\ tz = 0
  /\ today = 0
  /\ engine = "service"
  /\ rules = <<>>
  /\ buckets = <<>>
  /\ transactions = <<>>
  /\ pc = "setup"
  /\ idx = 0
  /\ sortedBuckets = <<>>
  /\ result = NoResult
  /\ inTx = Null
  /\ inCond = Null
  /\ inGroup = Null
  /\ outcome = NoOutcome
  /\ heap = [r \in Refs |-> Null]
  /\ configService = [buckets |-> <<>>, rules |-> <<>>, storedBuckets |-> <<>>,
                      storedRules |-> <<>>, bucketIds |-> 0, ruleIds |-> 0]
  /\ setupComponent = [buckets |-> <<>>, rules |-> <<>>, editingBucket |-> NullRef,
                       selectedBucketForRules |-> NullRef]
  /\ invocations = <<>>
  /\ categorizedBuckets = <<>>

NextConfig ==
  \/ \E form \in Forms : AddBucket(form.name, form.priority, form.goal)
  \/ \E i \in 1..MaxBucketIds : DeleteBucket(i)
  \/ \E i \in 1..MaxBucketIds : StartEditBucket(i)
  \/ \E form \in Forms : SaveEditBucket(form.name, form.priority, form.goal)
  \/ CancelEditBucket
  \/ AddRule
  \/ \E ruleId \in 1..MaxRuleIds : DeleteRule(ruleId)
  \/ \E i \in 1..MaxBucketIds : OpenBucketRuleConfig(i)
  \/ CloseBucketRuleConfig
  \/ \E ruleId \in 1..MaxRuleIds : ToggleRuleForBucket(ruleId)
  \/ \E ruleId \in 1..MaxRuleIds : ToggleRuleActiveState(ruleId)

SpecConfig == InitConfig /\ [][NextConfig]_vars

\* the associations the service holds for the bucket of an id, <<>> when it has
\* no such bucket
StoredRulesOf(h, s, bucketId) ==
  IF findIndex(h, s.buckets, bucketId) > 0
  THEN h[s.buckets[findIndex(h, s.buckets, bucketId)]].rules
  ELSE <<>>

\* C26: every association of every bucket the service holds, and of every
\* bucket in localStorage, refers to a rule that exists: a deleted rule's id is
\* in no bucket, whatever configuration operations follow.
C26_AssociationsReferToExistingRules ==
  pc = "setup" =>
    \A i \in 1..Len(configService.storedBuckets) :
      \A k \in 1..Len(configService.storedBuckets[i].rules) :
        \E j \in 1..Len(configService.rules) :
          configService.rules[j] = configService.storedBuckets[i].rules[k].ruleId

\* C27: saveEditBucket leaves the associations of the edited bucket as the
\* service held them immediately before the save.
C27_SaveKeepsAssociations ==
  [][(\E form \in Forms : SaveEditBucket(form.name, form.priority, form.goal)) =>
       StoredRulesOf(heap', configService', heap[setupComponent.editingBucket].id)
         = StoredRulesOf(heap, configService, heap[setupComponent.editingBucket].id)]_vars

(***************************************************************************)
(* The dashboard: calls of categorizeTransactions that overlap.  A call is *)
(* suspended at each await of uiStateService.getFoldableState; what runs   *)
(* between two awaits runs without interruption.  The reads of the UI      *)
(* state are independent requests to the database: the order in which they *)
(* complete is not fixed by the order in which they were made.             *)
(***************************************************************************)
\* how many calls of categorizeTransactions are suspended at once
MaxInvocations == 2

RECURSIVE applyRulesFrom(_, _, _, _, _, _, _)
\* the loop of applyRulesToTransactions over the transactions after the k-th
applyRulesFrom(res, txs, k, sorted, e, rs, z) ==
  IF k >= Len(txs) THEN res
  ELSE applyRulesFrom(placeTransaction(res, txs[k + 1], sorted, e, rs, z),
                      txs, k + 1, sorted, e, rs, z)

\* applyRulesToTransactions(transactions, buckets) in one piece
applyRulesToTransactions(txs, bs, e, rs, z) ==
  applyRulesFrom([categorized |-> [id \in {bs[k].id : k \in 1..Len(bs)} |-> <<>>],
                  uncategorized |-> <<>>],
                 txs, 0, SortByPriority(bs), e, rs, z)

\* a call suspended at its first await (line 365)
Started == [at |-> "start", res |-> NoResult, sorted |-> <<>>, entries |-> <<>>]

\* a call suspended at the await of the loop round of the next bucket (line 399)
InLoop(res, sorted, entries) ==
  [at |-> "loop", res |-> res, sorted |-> sorted, entries |-> entries]

\* the sequence without its i-th element
Without(q, i) == SubSeq(q, 1, i - 1) \o SubSeq(q, i + 1, Len(q))

\* newCategorizedBuckets with the uncategorized entry, if there is one (lines 414-422)
withUncategorized(entries, res) ==
  IF Len(res.uncategorized) > 0
  THEN Append(entries, uncategorizedBucket(txsOf(res.uncategorized)))
  ELSE entries

\* transactions$ emits a list: allTransactions is set and categorizeTransactions
\* called, which runs up to its first await (lines 127-130)
TransactionsArrive(txs) ==
  /\ pc = "dashboard"
  /\ Len(invocations) < MaxInvocations
  /\ transactions' = txs
  /\ invocations' = Append(invocations, Started)
  /\ UNCHANGED <<tz, today, engine, rules, buckets, pc, idx, sortedBuckets, result, inTx,
                 inCond, inGroup, outcome, heap, configService, setupComponent,
                 categorizedBuckets>>

\* accounts$ emits: categorizeTransactions is called if there are transactions
\* or buckets (lines 117-124)
AccountsArrive ==
  /\ pc = "dashboard"
  /\ Len(invocations) < MaxInvocations
  /\ Len(transactions) > 0 \/ Len(buckets) > 0
  /\ invocations' = Append(invocations, Started)
  /\ UNCHANGED <<tz, today, engine, rules, buckets, transactions, pc, idx, sortedBuckets,
                 result, inTx, inCond, inGroup, outcome, heap, configService,
                 setupComponent, categorizedBuckets>>

\* the first await of the i-th suspended call completes and there are no
\* buckets: categorizedBuckets is assigned and the call returns (lines 375-389)
CategorizeWithoutBuckets(i) ==
  /\ pc = "dashboard"
  /\ i \in 1..Len(invocations)
  /\ invocations[i].at = "start"
  /\ Len(buckets) = 0
  /\ categorizedBuckets' = (IF Len(transactions) = 0 THEN <<>>
                            ELSE <<uncategorizedBucket(transactions)>>)
  /\ invocations' = Without(invocations, i)
  /\ UNCHANGED <<tz, today, engine, rules, buckets, transactions, pc, idx, sortedBuckets,
                 result, inTx, inCond, inGroup, outcome, heap, configService,
                 setupComponent>>

\* the first await of the i-th suspended call completes: the rules are applied
\* to this.allTransactions as it is now, and the call is suspended in the first
\* round of the bucket loop (lines 392-399)
CategorizeApplyRules(i) ==
  /\ pc = "dashboard"
  /\ i \in 1..Len(invocations)
  /\ invocations[i].at = "start"
  /\ Len(buckets) > 0
  /\ invocations' =
       Append(Without(invocations, i),
              InLoop(applyRulesToTransactions(transactions, buckets, engine, rules, tz),
                     SortByPriority(buckets), <<>>))
  /\ UNCHANGED <<tz, today, engine, rules, buckets, transactions, pc, idx, sortedBuckets,
                 result, inTx, inCond, inGroup, outcome, heap, configService,
                 setupComponent, categorizedBuckets>>

\* the entries of a call once the await of its current loop round completed
entriesAfterRound(inv, now, z) ==
  Append(inv.entries,
         bucketWithTransactions(inv.sorted[Len(inv.entries) + 1],
                                transactionsOfBucket(inv.res,
                                                     inv.sorted[Len(inv.entries) + 1]),
                                now, z))

\* the await of a loop round of the i-th suspended call completes and another
\* bucket follows (lines 399-410, 396-399)
CategorizeNextBucket(i) ==
  /\ pc = "dashboard"
  /\ i \in 1..Len(invocations)
  /\ invocations[i].at = "loop"
  /\ Len(invocations[i].entries) + 1 < Len(invocations[i].sorted)
  /\ invocations' =
       Append(Without(invocations, i),
              [invocations[i] EXCEPT !.entries = entriesAfterRound(invocations[i], today, tz)])
  /\ UNCHANGED <<tz, today, engine, rules, buckets, transactions, pc, idx, sortedBuckets,
                 result, inTx, inCond, inGroup, outcome, heap, configService,
                 setupComponent, categorizedBuckets>>

\* the await of the last loop round of the i-th suspended call completes:
\* categorizedBuckets is assigned and the call returns (lines 399-423)
CategorizeAssign(i) ==
  /\ pc = "dashboard"
  /\ i \in 1..Len(invocations)
  /\ invocations[i].at = "loop"
  /\ Len(invocations[i].entries) + 1 = Len(invocations[i].sorted)
  /\ categorizedBuckets' =
       withUncategorized(entriesAfterRound(invocations[i], today, tz), invocations[i].res)
  /\ invocations' = Without(invocations, i)
  /\ UNCHANGED <<tz, today, engine, rules, buckets, transactions, pc, idx, sortedBuckets,
                 result, inTx, inCond, inGroup, outcome, heap, configService,
                 setupComponent>>

\* the bucket configurations of the dashboard: none, one bucket, two buckets
DashboardBucketLists ==
  {bs \in GoalBucketLists :
     \A k \in 1..Len(bs) :
       /\ bs[k].goal.goalType = "spending_limit"
       /\ bs[k].rules = (IF k = 1 THEN <<Link("rAmazon", TRUE)>> ELSE <<Link("rHasA", TRUE)>>)}

\* ngOnInit has subscribed to transactions$, which handed over its current
\* list at once: one call is suspended at its first await
InitDashboard ==
  /\ tz = 0
  /\ today = 60
  /\ engine \in Engines
  /\ rules = RuleStore
  /\ buckets \in DashboardBucketLists
  /\ transactions \in DistinctSeqsUpTo(TxPool, MaxTx)
  /\ pc = "dashboard"
  /\ idx = 0
  /\ sortedBuckets = <<>>
  /\ result = NoResult
  /\ inTx = Null
  /\ inCond = Null
  /\ inGroup = Null
  /\ outcome = NoOutcome
  /\ heap = <<>>
  /\ configService = Null
  /\ setupComponent = Null
  /\ invocations = <<Started>>
  /\ categorizedBuckets = <<>>

NextDashboard ==
  \/ \E txs \in DistinctSeqsUpTo(TxPool, MaxTx) : TransactionsArrive(txs)
  \/ AccountsArrive
  \/ \E i \in 1..MaxInvocations : CategorizeWithoutBuckets(i)
  \/ \E i \in 1..MaxInvocations : CategorizeApplyRules(i)
  \/ \E i \in 1..MaxInvocations : CategorizeNextBucket(i)
  \/ \E i \in 1..MaxInvocations : CategorizeAssign(i)

SpecDashboard == InitDashboard /\ [][NextDashboard]_vars

\* what one undisturbed call of categorizeTransactions displays for a list
categorizationOf(txs, bs, e, rs, now, z) ==
  IF Len(bs) = 0
  THEN IF Len(txs) = 0 THEN <<>> ELSE <<uncategorizedBucket(txs)>>
  ELSE withUncategorized(
         [k \in 1..Len(bs) |->
            bucketWithTransactions(
              SortByPriority(bs)[k],
              transactionsOfBucket(applyRulesToTransactions(txs, bs, e, rs, z),
                                   SortByPriority(bs)[k]),
              now, z)],
         applyRulesToTransactions(txs, bs, e, rs, z))

\* C28: once every call of categorizeTransactions has returned, the displayed
\* categorizedBuckets is the categorization of the list received last: a call
\* made earlier never overwrites the result of a later one.
C28_LatestListDisplayed ==
  (pc = "dashboard" /\ invocations = <<>>) =>
    categorizedBuckets = categorizationOf(transactions, buckets, engine, rules, today, tz)

(***************************************************************************)
(* The earlier categorizeTransactions (part_010, part_011): bucket by      *)
(* bucket, with the set assignedTransactionIds.                            *)
(***************************************************************************)
\* a defect: no transaction counts as assigned
isAssigned_never(assignedTransactionIds, tx) == FALSE

\* assignedTransactionIds.has(tx.id)
isAssigned(assignedTransactionIds, tx) == tx.id \in assignedTransactionIds

\* the state of the loops: the set of ids and the list of each bucket
ByBucket(assigned, categorized) == [assigned |-> assigned, categorized |-> categorized]

\* one round of the loop over tempCategorizedTransactions for a bucket
\* (part_010 lines 192-210)
bucketRound(st, tx, bucket, e, rs, z) ==
  IF isAssigned(st.assigned, tx) THEN st
  ELSE IF bucketMatches(e, tx, bucket, rs, z)
  THEN ByBucket(st.assigned \cup {tx.id},
                [st.categorized EXCEPT ![bucket.id] = Append(@, Categorized(tx, bucket))])
  ELSE st

RECURSIVE bucketLoop(_, _, _, _, _, _, _)
\* the loop over tempCategorizedTransactions for a bucket, after the k-th
bucketLoop(st, txs, k, bucket, e, rs, z) ==
  IF k >= Len(txs) THEN st
  ELSE bucketLoop(bucketRound(st, txs[k + 1], bucket, e, rs, z), txs, k + 1, bucket, e, rs, z)

RECURSIVE bucketsLoop(_, _, _, _, _, _, _)
\* the loop over sortedBuckets, after the k-th (part_010 lines 187-266)
bucketsLoop(st, txs, sorted, k, e, rs, z) ==
  IF k >= Len(sorted) THEN st
  ELSE bucketsLoop(bucketLoop(st, txs, 0, sorted[k + 1], e, rs, z), txs, sorted, k + 1,
                   e, rs, z)

\* tempCategorizedTransactions.filter(tx => !assignedTransactionIds.has(tx.id))
uncategorizedTransactions(txs, assigned) ==
  SelectSeq([k \in 1..Len(txs) |-> Uncategorized(txs[k])],
            LAMBDA c : ~isAssigned(assigned, c.tx))

\* the lists of the earlier categorizeTransactions: one per bucket, and the
\* uncategorized transactions
listsOf(st, txs) ==
  [categorized |-> st.categorized,
   uncategorized |-> uncategorizedTransactions(txs, st.assigned)]

categorizeByBucket(txs, bs, e, rs, z) ==
  listsOf(bucketsLoop(ByBucket({}, [id \in {bs[k].id : k \in 1..Len(bs)} |-> <<>>]),
                      txs, SortByPriority(bs), 0, e, rs, z),
          txs)

\* both classifiers are run on the same transactions and buckets
Classify ==
  /\ pc = "classify"
  /\ outcome' = [byTransaction |->
                   applyRulesToTransactions(transactions, buckets, engine, rules, tz),
                 byBucket |-> categorizeByBucket(transactions, buckets, engine, rules, tz)]
  /\ pc' = "classified"
  /\ UNCHANGED <<pages, tz, today, engine, rules, buckets, transactions, idx, sortedBuckets,
                 result, inTx, inCond, inGroup>>

\* a transaction of another account that carries the id of t1
SameIdOtherAccount ==
  [Tx("t1", 31, -999, Str(<<"C", "a", "f", "e">>), Undefined, Undefined)
     EXCEPT !.accountName = Str(<<"S", "a", "v", "e">>)]

\* the transactions of all accounts together
AccountsTxPool == TxPool \cup {SameIdOtherAccount}

InitClassify ==
  /\ tz = 0
  /\ NoPages
  /\ today = 0
  /\ engine \in Engines
  /\ rules = RuleStore
  /\ buckets \in BucketLists
  /\ transactions \in DistinctSeqsUpTo(AccountsTxPool, MaxTx)
  /\ pc = "classify"
  /\ idx = 0
  /\ sortedBuckets = <<>>
  /\ result = NoResult
  /\ inTx = Null
  /\ inCond = Null
  /\ inGroup = Null
  /\ outcome = NoOutcome

NextClassify == Classify

SpecClassify == InitClassify /\ [][NextClassify]_vars

\* the ids of the transactions are pairwise distinct
DistinctIds ==
  \A i, j \in 1..Len(transactions) : i # j => transactions[i].id # transactions[j].id

\* C29 as stated: every transaction of allTransactions is in exactly one
\* list of the bucket-by-bucket categorizeTransactions, a bucket's or the
\* uncategorized one, also when two transactions carry the same id.
C29_EveryTransactionInOneList ==
  pc = "classified" =>
    \A i \in 1..Len(transactions) : CopiesInResult(outcome.byBucket, transactions[i]) = 1

\* the id of the bucket whose list holds tx, <<>> when no bucket's list does
BucketOf(res, tx) ==
  IF \E id \in DOMAIN res.categorized : Copies(res.categorized[id], tx) > 0
  THEN CHOOSE id \in DOMAIN res.categorized : Copies(res.categorized[id], tx) > 0
  ELSE <<>>

\* C30: on transactions with pairwise distinct ids the two classifiers assign
\* every transaction to the same bucket or both leave it uncategorized, each in
\* exactly one list.
C30_ClassifiersAgree ==
  (pc = "classified" /\ DistinctIds) =>
    \A i \in 1..Len(transactions) :
      /\ BucketOf(outcome.byTransaction, transactions[i])
           = BucketOf(outcome.byBucket, transactions[i])
      /\ CopiesInResult(outcome.byTransaction, transactions[i]) = 1
      /\ CopiesInResult(outcome.byBucket, transactions[i]) = 1

\* two buckets that both match a transaction, which both classifiers give to
\* the first, and a transaction both leave uncategorized
C30_Witness ==
  /\ pc = "classified"
  /\ DistinctIds
  /\ Len(buckets) = 2
  /\ \E i \in 1..Len(transactions) :
       /\ bucketMatches(engine, transactions[i], buckets[1], rules, tz)
       /\ bucketMatches(engine, transactions[i], buckets[2], rules, tz)
       /\ BucketOf(outcome.byBucket, transactions[i]) = SortByPriority(buckets)[1].id
       /\ BucketOf(outcome.byTransaction, transactions[i]) = SortByPriority(buckets)[1].id
  /\ \E i \in 1..Len(transactions) :
       /\ BucketOf(outcome.byBucket, transactions[i]) = <<>>
       /\ Copies(outcome.byTransaction.uncategorized, transactions[i]) = 1

====
